---- MODULE Spec2Model ----
(***************************************************************************)
(* Model of cb-gateway-api: the AES-256-GCM payload cipher                 *)
(* (src/libs/env.ts), the PEM helper and identifier generator              *)
(* (src/libs/util.ts), the request signer (src/libs/hmac/index.ts) and the *)
(* single-pass envelope exchange of src/index.ts.                          *)
(*                                                                         *)
(* JavaScript values are records [t, v]: a Buffer holds a sequence of      *)
(* bytes (0..255), a string a sequence of UTF-16 code units.  The          *)
(* cryptographic provider (node:crypto) is modelled by a small cipher with *)
(* the provider's interface: its argument checks, its tag lengths and its  *)
(* error messages are the provider's, its arithmetic is a stand-in.        *)
(***************************************************************************)
EXTENDS Integers, Sequences, FiniteSets, TLC

VARIABLES
    \* ---- caller of the AES library (specification SpecAes)
    hText,      \* text argument of encrypt
    hKey,       \* key argument of encrypt / decrypt
    hIv,        \* iv argument of encrypt (a Buffer or undefined)
    hEnc,       \* what encrypt returned or threw; NoResult before the call
    hCall,      \* the decrypt / decryptFullCiphertext call and its outcome
    \* ---- one run of src/index.ts (specification Spec)
    pc,         \* position of the script
    envv,       \* process.env as env.ts:21 reads it
    reqRefNo,   \* index.ts:41
    apiPayload, \* JSON.stringify(apiPayload), index.ts:44-51 and 60
    innerPayload, \* index.ts:58
    aesKey,     \* index.ts:67
    rawIv,      \* index.ts:69
    aesOut,     \* what aesEncrypt returned or threw, index.ts:72
    wk,         \* what crypto.publicEncrypt returned or threw, index.ts:83
    requestBody,\* index.ts:92
    headers,    \* index.ts:102
    response,   \* what fetch resolved to, index.ts:114
    res,        \* what response.json() resolved to, index.ts:124
    decrypted,  \* what decryptFullCiphertext returned or threw, index.ts:148
    failure,    \* the error that ended the run
    trace,      \* the protocol steps performed so far, in order
    cipherLog,  \* every use of the session key: [op, key, iv, ran]
    gateway,    \* the counterpart: its key pair and what it made of the request
    \* ---- caller of src/libs/util.ts (specification SpecUtil)
    uCall,      \* the last call of a function of util.ts and its outcome
    \* ---- concurrent runs of src/index.ts (specification SpecConc)
    runs        \* the state of each run, by its number

vars == <<hText, hKey, hIv, hEnc, hCall, pc, envv, reqRefNo, apiPayload, innerPayload,
          aesKey, rawIv, aesOut, wk, requestBody, headers, response, res, decrypted,
          failure, trace, cipherLog, gateway, uCall, runs>>

uVars == <<uCall>>

cVars == <<runs>>

hVars == <<hText, hKey, hIv, hEnc, hCall>>

runVars == <<pc, envv, reqRefNo, apiPayload, innerPayload, aesKey, rawIv, aesOut, wk,
             requestBody, headers, response, res, decrypted, failure, trace, cipherLog,
             gateway>>

-----------------------------------------------------------------------------
(* Bounds of the model                                                     *)

\* longest plaintext handed to encrypt by the library's caller
MaxTextLen == 2

-----------------------------------------------------------------------------
(* JavaScript values                                                       *)

Buf(b) == [t |-> "Buffer", v |-> b]

Str(s) == [t |-> "string", v |-> s]

Undefined == [t |-> "undefined", v |-> <<>>]

Null == [t |-> "null", v |-> <<>>]

\* a number, for a caller that passes one where a string is expected
Num(n) == [t |-> "number", v |-> <<n>>]

\* JavaScript truthiness of the values used here: undefined and "" are falsy,
\* every Buffer (the empty one too) is truthy.
Truthy(x) == \/ x.t = "Buffer"
             \/ x.t = "string" /\ x.v # <<>>

\* x.length
Length(x) == Len(x.v)

Ok(value) == [ok |-> TRUE, value |-> value, error |-> <<>>]

\* a thrown Error; its message is kept as the segments separated by ": "
Err(message) == [ok |-> FALSE, value |-> Undefined, error |-> message]

\* the caller of util.ts before its first call
NoUCall == [fn |-> "none"]

UIdle == uCall = NoUCall

\* no concurrent run has been started
CIdle == runs = <<>>

\* no call made yet
NoResult == [ok |-> FALSE, value |-> Undefined, error |-> <<>>]

\* b with bit number bit of its byte pos inverted
FlipBit(b, pos, bit) ==
    LET w == 2 ^ bit
    IN  [b EXCEPT ![pos] = IF (b[pos] \div w) % 2 = 1 THEN b[pos] - w ELSE b[pos] + w]

SetMax(S) == CHOOSE x \in S : \A y \in S : y <= x

RECURSIVE SumSeq(_)
SumSeq(s) ==
    IF s = <<>> THEN 0
    ELSE IF Len(s) = 1 THEN s[1]
    ELSE SumSeq(SubSeq(s, 1, Len(s) \div 2)) + SumSeq(SubSeq(s, Len(s) \div 2 + 1, Len(s)))

-----------------------------------------------------------------------------
(* Encodings: Buffer.toString / Buffer.from                                *)

HexChars == <<48, 49, 50, 51, 52, 53, 54, 55, 56, 57, 97, 98, 99, 100, 101, 102>>

\* Buffer.toString("hex"): two lowercase digits per byte
HexEncode(b) ==
    [i \in 1..(2 * Len(b)) |->
        HexChars[(IF i % 2 = 1 THEN b[(i + 1) \div 2] \div 16
                               ELSE b[i \div 2] % 16) + 1]]

HexVal(c) == IF c >= 48 /\ c <= 57 THEN c - 48
             ELSE IF c >= 97 /\ c <= 102 THEN c - 87
             ELSE IF c >= 65 /\ c <= 70 THEN c - 55
             ELSE -1

\* Buffer.from(s, "hex"): decodes pairs of digits up to the first invalid pair
HexDecode(s) ==
    LET bad == {j \in 1..(Len(s) \div 2) : HexVal(s[2 * j - 1]) < 0 \/ HexVal(s[2 * j]) < 0}
        n == IF bad = {} THEN Len(s) \div 2 ELSE (CHOOSE j \in bad : \A k \in bad : j <= k) - 1
    IN  [j \in 1..n |-> 16 * HexVal(s[2 * j - 1]) + HexVal(s[2 * j])]

\* String.prototype.toUpperCase on the characters that occur (ASCII letters)
ToUpperCase(s) == [i \in 1..Len(s) |-> IF s[i] >= 97 /\ s[i] <= 122 THEN s[i] - 32 ELSE s[i]]

\* UTF-8 bytes of one UTF-16 code unit; a lone surrogate becomes U+FFFD
Utf8Unit(c) ==
    IF c < 128 THEN <<c>>
    ELSE IF c < 2048 THEN <<192 + (c \div 64), 128 + (c % 64)>>
    ELSE IF c >= 55296 /\ c <= 57343 THEN <<239, 191, 189>>
    ELSE <<224 + (c \div 4096), 128 + ((c \div 64) % 64), 128 + (c % 64)>>

\* Buffer.from(s, "utf8"); the texts of the model hold no surrogate pair
RECURSIVE Utf8Encode(_)
Utf8Encode(s) ==
    IF s = <<>> THEN <<>>
    ELSE IF Len(s) = 1 THEN Utf8Unit(s[1])
    ELSE Utf8Encode(SubSeq(s, 1, Len(s) \div 2)) \o Utf8Encode(SubSeq(s, Len(s) \div 2 + 1, Len(s)))

IsCont(b, i) == i <= Len(b) /\ b[i] >= 128 /\ b[i] <= 191

\* Buffer.toString("utf8"): an ill-formed byte decodes to U+FFFD.  A long
\* buffer is decoded in two parts, cut before an ASCII byte, where no
\* multi-byte sequence can span the cut.
RECURSIVE Utf8Decode(_)
Utf8Decode(b) ==
    LET cuts == {k \in 2..Len(b) : b[k] < 128 /\ k >= Len(b) \div 2}
        cut == CHOOSE k \in cuts : \A m \in cuts : k <= m
    IN  IF b = <<>> THEN <<>>
        ELSE IF Len(b) > 8 /\ cuts # {}
            THEN Utf8Decode(SubSeq(b, 1, cut - 1)) \o Utf8Decode(SubSeq(b, cut, Len(b)))
        ELSE IF b[1] < 128 THEN <<b[1]>> \o Utf8Decode(Tail(b))
        ELSE IF b[1] >= 194 /\ b[1] <= 223 /\ IsCont(b, 2)
            THEN <<(b[1] - 192) * 64 + (b[2] - 128)>> \o Utf8Decode(SubSeq(b, 3, Len(b)))
        ELSE IF b[1] >= 224 /\ b[1] <= 239 /\ IsCont(b, 2) /\ IsCont(b, 3)
            THEN <<(b[1] - 224) * 4096 + (b[2] - 128) * 64 + (b[3] - 128)>>
                 \o Utf8Decode(SubSeq(b, 4, Len(b)))
        ELSE <<65533>> \o Utf8Decode(Tail(b))

B64Chars == <<65, 66, 67, 68, 69, 70, 71, 72, 73, 74, 75, 76, 77, 78, 79, 80, 81, 82, 83,
              84, 85, 86, 87, 88, 89, 90, 97, 98, 99, 100, 101, 102, 103, 104, 105, 106,
              107, 108, 109, 110, 111, 112, 113, 114, 115, 116, 117, 118, 119, 120, 121,
              122, 48, 49, 50, 51, 52, 53, 54, 55, 56, 57, 43, 47>>

\* Buffer.toString("base64"): three bytes to four characters, "=" padded
Base64Encode(b) ==
    LET n == Len(b)
        at(k) == IF k <= n THEN b[k] ELSE 0
    IN  [i \in 1..(4 * ((n + 2) \div 3)) |->
            LET g == 3 * ((i - 1) \div 4)
                j == (i - 1) % 4
            IN  IF j = 0 THEN B64Chars[(at(g + 1) \div 4) + 1]
                ELSE IF j = 1 THEN B64Chars[(at(g + 1) % 4) * 16 + (at(g + 2) \div 16) + 1]
                ELSE IF j = 2 THEN
                    IF g + 2 > n THEN 61
                    ELSE B64Chars[(at(g + 2) % 16) * 4 + (at(g + 3) \div 64) + 1]
                ELSE IF g + 3 > n THEN 61 ELSE B64Chars[(at(g + 3) % 64) + 1]]

B64Val(c) == IF c >= 65 /\ c <= 90 THEN c - 65
             ELSE IF c >= 97 /\ c <= 122 THEN c - 71
             ELSE IF c >= 48 /\ c <= 57 THEN c + 4
             ELSE IF c = 43 \/ c = 45 THEN 62
             ELSE IF c = 47 \/ c = 95 THEN 63
             ELSE -1

\* the bytes of a sequence of 6-bit digits: four digits to three bytes, a
\* last group of two or three digits to one or two bytes
B64Groups(d) ==
    [k \in 1..((3 * Len(d)) \div 4) |->
        LET g == 4 * ((k - 1) \div 3)
            r == (k - 1) % 3
        IN  IF r = 0 THEN d[g + 1] * 4 + (d[g + 2] \div 16)
            ELSE IF r = 1 THEN (d[g + 2] % 16) * 16 + (d[g + 3] \div 4)
            ELSE (d[g + 3] % 4) * 64 + d[g + 4]]

\* Buffer.from(s, "base64"): stops at "=", skips what is no base64 digit
Base64Decode(s) ==
    LET stop == {i \in 1..Len(s) : s[i] = 61}
        upto == IF stop = {} THEN Len(s) ELSE (CHOOSE i \in stop : \A j \in stop : i <= j) - 1
        digits == SelectSeq([i \in 1..upto |-> B64Val(s[i])], LAMBDA x : x >= 0)
    IN  B64Groups(digits)

\* the bytes the provider reads from a Buffer or, for a string given without
\* an encoding, from its UTF-8 encoding
AsBytes(x) == IF x.t = "string" THEN Utf8Encode(x.v) ELSE x.v

-----------------------------------------------------------------------------
(* The AES-256-GCM provider (node:crypto) as env.ts uses it                *)

DEFAULT_KEY_LENGTH == 32

DEFAULT_IV_LENGTH == 6

MIN_IV_LENGTH == 6

MAX_IV_LENGTH == 16

DEFAULT_TAG_LENGTH == 16

\* tag lengths setAuthTag accepts for GCM
GcmTagLengths == {4, 8, 12, 13, 14, 15, 16}

\* the key stream under (key, iv) starts at this byte and advances by 7
KeyStreamBase(key, iv) == (3 * SumSeq(key) + 5 * SumSeq(iv) + 11 * Len(iv) + 1) % 256

\* cipher.update + cipher.final: the ciphertext is as long as the plaintext
GcmCrypt(key, iv, pt) ==
    LET base == KeyStreamBase(key, iv)
    IN  [i \in 1..Len(pt) |-> (pt[i] + base + 7 * i) % 256]

\* decipher.update + decipher.final, before the tag is compared
GcmUncrypt(key, iv, ct) ==
    LET base == KeyStreamBase(key, iv)
    IN  [i \in 1..Len(ct) |-> (ct[i] + 512 - ((base + 7 * i) % 256)) % 256]

\* cipher.getAuthTag(): 16 bytes that depend on key, iv and ciphertext
GcmTag(key, iv, ct) ==
    LET h == (SumSeq(key) + 3 * SumSeq(iv) + 7 * Len(iv) + 5 * SumSeq(ct) + 9 * Len(ct)) % 256
    IN  [j \in 1..DEFAULT_TAG_LENGTH |-> (h + 17 * (j - 1)) % 256]

\* crypto.createCipheriv / createDecipheriv("aes-256-gcm", key, iv): the error
\* message, or <<>> when the cipher object is made
CipherivError(key, iv) ==
    IF Len(key) # DEFAULT_KEY_LENGTH THEN "Invalid key length"
    ELSE IF Len(iv) = 0 THEN "Invalid initialization vector"
    ELSE ""

AuthErrorMessage == "Unsupported state or unable to authenticate data"

-----------------------------------------------------------------------------
(* src/libs/env.ts: encrypt, decrypt, decryptFullCiphertext                *)

EmptyTextMsg == <<"Text to encrypt cannot be empty">>

InvalidKeyMsg == <<"Key must be 32 bytes (256 bits) for AES-256">>

InvalidIvText == "IV length must be between 6 and 16 bytes for GCM mode"

EncryptFailedPrefix == "AES-256-GCM encryption failed"

MissingFieldMsg == <<"Encrypted data must contain ciphertext, iv, and authTag">>

AuthFailedMsg == <<"Authentication failed", "Data may have been tampered with">>

DecryptFailedPrefix == "AES-256-GCM decryption failed"

FullEmptyMsg == <<"Full ciphertext cannot be empty">>

IvEmptyMsg == <<"IV cannot be empty">>

TooShortMsg == <<"Full ciphertext is too short">>

FullFailedPrefix == "AES-256-GCM decryption with full ciphertext failed"

\* encrypt(text, key, iv?); rnd is the outcome of crypto.randomBytes(6), read
\* only when no iv is given.  The IV length check throws inside the try block,
\* so the catch clause rewraps it like a provider error.
Encrypt(text, key, iv, rnd) ==
    IF ~Truthy(text) THEN Err(EmptyTextMsg)
    ELSE IF ~Truthy(key) \/ Length(key) # DEFAULT_KEY_LENGTH THEN Err(InvalidKeyMsg)
    ELSE IF Truthy(iv) /\ (Length(iv) < MIN_IV_LENGTH \/ Length(iv) > MAX_IV_LENGTH)
        THEN Err(<<EncryptFailedPrefix, InvalidIvText>>)
    ELSE LET ivb == IF ~Truthy(iv) THEN rnd ELSE AsBytes(iv)
             ce == CipherivError(AsBytes(key), ivb)
             ct == GcmCrypt(AsBytes(key), ivb, Utf8Encode(text.v))
             encrypted == HexEncode(ct)
             authTag == HexEncode(GcmTag(AsBytes(key), ivb, ct))
         IN  IF ce # "" THEN Err(<<EncryptFailedPrefix, ce>>)
             ELSE Ok([fullCiphertext |-> Str(encrypted \o authTag),
                      ciphertext |-> Str(encrypted),
                      iv |-> Str(HexEncode(ivb)),
                      authTag |-> Str(authTag)])

\* createDecipheriv, setAuthTag, update and final of decrypt's try block: the
\* plaintext, or the message of the error the provider throws
ProviderDecrypt(key, iv, ciphertext, authTag) ==
    LET k == AsBytes(key)
        ivb == AsBytes(iv)
        tag == AsBytes(authTag)
        ct == AsBytes(ciphertext)
        ce == CipherivError(k, ivb)
    IN  IF ce # "" THEN Err(<<ce>>)
        ELSE IF Len(tag) \notin GcmTagLengths THEN Err(<<"Invalid authentication tag length">>)
        ELSE IF tag # SubSeq(GcmTag(k, ivb, ct), 1, Len(tag)) THEN Err(<<AuthErrorMessage>>)
        ELSE Ok(Buf(GcmUncrypt(k, ivb, ct)))

\* whether the provider compared a tag, i.e. the cipher ran to final()
ProviderVerifies(key, iv, authTag) ==
    /\ CipherivError(AsBytes(key), AsBytes(iv)) = ""
    /\ Len(AsBytes(authTag)) \in GcmTagLengths

\* decrypt(encryptedData, key)
Decrypt(encryptedData, key) ==
    IF \/ ~Truthy(encryptedData.ciphertext)
       \/ ~Truthy(encryptedData.iv)
       \/ ~Truthy(encryptedData.authTag) THEN Err(MissingFieldMsg)
    ELSE IF ~Truthy(key) \/ Length(key) # DEFAULT_KEY_LENGTH THEN Err(InvalidKeyMsg)
    ELSE LET r == ProviderDecrypt(key, encryptedData.iv, encryptedData.ciphertext,
                                  encryptedData.authTag)
         IN  IF r.ok THEN r
             ELSE IF r.error[1] = AuthErrorMessage THEN Err(AuthFailedMsg)
             ELSE Err(<<DecryptFailedPrefix>> \o r.error)

\* index of a relative (possibly negative) start or end into n elements;
\* the argument -0 is 0
RelIndex(i, n) == IF i < 0 THEN (IF n + i < 0 THEN 0 ELSE n + i)
                  ELSE (IF i > n THEN n ELSE i)

\* Buffer.prototype.subarray(begin, end)
Subarray(b, begin, end) == SubSeq(b, RelIndex(begin, Len(b)) + 1, RelIndex(end, Len(b)))

\* env.ts:207-208
SplitFullCiphertext(fullCiphertext, tagLength) ==
    [ciphertext |-> Buf(Subarray(fullCiphertext.v, 0, -tagLength)),
     authTag |-> Buf(Subarray(fullCiphertext.v, -tagLength, Len(fullCiphertext.v)))]

NotPassed == [ciphertext |-> Undefined, iv |-> Undefined, authTag |-> Undefined]

\* decryptFullCiphertext(fullCiphertext, iv, key, tagLength): its outcome and
\* the encryptedData it handed to decrypt (NotPassed when it did not get there)
DecryptFullCiphertextCall(fullCiphertext, iv, key, tagLength) ==
    IF ~Truthy(fullCiphertext) THEN [result |-> Err(FullEmptyMsg), passed |-> NotPassed]
    ELSE IF ~Truthy(iv) THEN [result |-> Err(IvEmptyMsg), passed |-> NotPassed]
    ELSE IF ~Truthy(key) \/ Length(key) # DEFAULT_KEY_LENGTH
        THEN [result |-> Err(InvalidKeyMsg), passed |-> NotPassed]
    ELSE IF Length(fullCiphertext) < tagLength
        THEN [result |-> Err(TooShortMsg), passed |-> NotPassed]
    ELSE IF fullCiphertext.t # "Buffer"
        THEN [result |-> Err(<<FullFailedPrefix, "fullCiphertext.subarray is not a function">>),
              passed |-> NotPassed]
    ELSE LET split == SplitFullCiphertext(fullCiphertext, tagLength)
             data == [ciphertext |-> split.ciphertext, iv |-> iv, authTag |-> split.authTag]
             r == Decrypt(data, key)
         IN  [result |-> IF r.ok THEN r ELSE Err(<<FullFailedPrefix>> \o r.error),
              passed |-> data]

DecryptFullCiphertext(fullCiphertext, iv, key, tagLength) ==
    DecryptFullCiphertextCall(fullCiphertext, iv, key, tagLength).result

-----------------------------------------------------------------------------
(* src/libs/util.ts: convertToPem, generateRandomString                    *)

PublicKeyHeader == <<45, 45, 45, 45, 45, 66, 69, 71, 73, 78, 32, 80, 85, 66, 76, 73, 67, 32, 75,
                     69, 89, 45, 45, 45, 45, 45>>

PublicKeyFooter == <<45, 45, 45, 45, 45, 69, 78, 68, 32, 80, 85, 66, 76, 73, 67, 32, 75, 69, 89,
                     45, 45, 45, 45, 45>>

RsaPrivateKeyHeader == <<45, 45, 45, 45, 45, 66, 69, 71, 73, 78, 32, 82, 83, 65, 32, 80, 82, 73,
                         86, 65, 84, 69, 32, 75, 69, 89, 45, 45, 45, 45, 45>>

RsaPrivateKeyFooter == <<45, 45, 45, 45, 45, 69, 78, 68, 32, 82, 83, 65, 32, 80, 82, 73, 86, 65,
                         84, 69, 32, 75, 69, 89, 45, 45, 45, 45, 45>>

\* WhiteSpace and LineTerminator: what String.prototype.trim removes and the
\* class \s of a regular expression matches
IsJsSpace(c) == \/ c \in {9, 10, 11, 12, 13, 32, 160, 5760, 8232, 8233, 8239, 8287, 12288, 65279}
                \/ c >= 8192 /\ c <= 8202

\* the mutation of Trim: only what leads is removed
TrimStart(s) ==
    LET solid == {i \in 1..Len(s) : ~IsJsSpace(s[i])}
    IN  IF solid = {} THEN <<>>
        ELSE SubSeq(s, CHOOSE i \in solid : \A j \in solid : i <= j, Len(s))

\* String.prototype.trim
Trim(s) ==
    LET solid == {i \in 1..Len(s) : ~IsJsSpace(s[i])}
    IN  IF solid = {} THEN <<>>
        ELSE SubSeq(s, CHOOSE i \in solid : \A j \in solid : i <= j,
                       CHOOSE i \in solid : \A j \in solid : j <= i)

\* "-----BEGIN "
BeginMark == <<45, 45, 45, 45, 45, 66, 69, 71, 73, 78, 32>>

\* "-----END "
EndMark == <<45, 45, 45, 45, 45, 69, 78, 68, 32>>

\* "-----"
Dashes == <<45, 45, 45, 45, 45>>

\* the class [A-Z\s] of pemPattern
IsLabelChar(c) == (c >= 65 /\ c <= 90) \/ IsJsSpace(c)

\* the text the group ([A-Z\s]+) captures in a text that starts with
\* BeginMark: the run of class characters after it ("-" is not of the class,
\* so no shorter capture can be followed by "-----"); <<>> when there is none
CapturedLabel(t) ==
    LET from == Len(BeginMark) + 1
        others == {i \in from..Len(t) : ~IsLabelChar(t[i])}
        upto == IF others = {} THEN Len(t)
                ELSE (CHOOSE i \in others : \A j \in others : i <= j) - 1
    IN  SubSeq(t, from, upto)

\* pemPattern.test(t) for /^-----BEGIN ([A-Z\s]+)-----[\s\S]+-----END \1-----$/
PemPatternTest(t) ==
    /\ Len(t) >= Len(BeginMark)
    /\ SubSeq(t, 1, Len(BeginMark)) = BeginMark
    /\ LET label == CapturedLabel(t)
           header == BeginMark \o label \o Dashes
           footer == EndMark \o label \o Dashes
       IN  /\ label # <<>>
           /\ Len(t) >= Len(header) + 1 + Len(footer)
           /\ SubSeq(t, 1, Len(header)) = header
           /\ SubSeq(t, Len(t) - Len(footer) + 1, Len(t)) = footer

\* isValidPEM(key)
IsValidPEM(key) ==
    IF ~Truthy(key) \/ key.t # "string" THEN FALSE
    ELSE PemPatternTest(Trim(key.v))

\* the characters "." of a regular expression does not match
IsLineTerminator(c) == c \in {10, 13, 8232, 8233}

\* the mutation of RunLength: lines of up to 76 characters
RunLengthOf76(s) ==
    LET upto == IF Len(s) < 76 THEN Len(s) ELSE 76
        stops == {i \in 1..upto : IsLineTerminator(s[i])}
    IN  IF stops = {} THEN upto ELSE (CHOOSE i \in stops : \A j \in stops : i <= j) - 1

\* length of the next match of /.{1,64}/ at the start of s (s[1] is no terminator)
RunLength(s) ==
    LET upto == IF Len(s) < 64 THEN Len(s) ELSE 64
        stops == {i \in 1..upto : IsLineTerminator(s[i])}
    IN  IF stops = {} THEN upto ELSE (CHOOSE i \in stops : \A j \in stops : i <= j) - 1

\* base64.match(/.{1,64}/g): the matches in order, <<>> for null
RECURSIVE MatchLines(_)
MatchLines(s) ==
    IF s = <<>> THEN <<>>
    ELSE IF IsLineTerminator(s[1]) THEN MatchLines(Tail(s))
    ELSE <<SubSeq(s, 1, RunLength(s))>> \o MatchLines(SubSeq(s, RunLength(s) + 1, Len(s)))

\* Array.prototype.join("\n")
RECURSIVE JoinLines(_)
JoinLines(lines) ==
    IF lines = <<>> THEN <<>>
    ELSE IF Len(lines) = 1 THEN lines[1]
    ELSE lines[1] \o <<10>> \o JoinLines(Tail(lines))

\* the mutation of ConvertToPem: no line break after the header and before
\* the footer
ConvertToPemUnbroken(base64, type) ==
    LET m == MatchLines(base64)
        wrappedBase64 == IF m = <<>> THEN base64 ELSE JoinLines(m)
    IN  IF type = "PUBLIC_KEY"
        THEN PublicKeyHeader \o wrappedBase64 \o PublicKeyFooter
        ELSE RsaPrivateKeyHeader \o wrappedBase64 \o RsaPrivateKeyFooter

\* convertToPem(base64, type)
ConvertToPem(base64, type) ==
    LET m == MatchLines(base64)
        wrappedBase64 == IF m = <<>> THEN base64 ELSE JoinLines(m)
    IN  IF type = "PUBLIC_KEY"
        THEN PublicKeyHeader \o <<10>> \o wrappedBase64 \o <<10>> \o PublicKeyFooter
        ELSE RsaPrivateKeyHeader \o <<10>> \o wrappedBase64 \o <<10>> \o RsaPrivateKeyFooter

\* Buffer.toString("base64url"): base64 with "-" for "+" and "_" for "/",
\* and without the "=" padding
Base64UrlEncode(b) ==
    LET std == SelectSeq(Base64Encode(b), LAMBDA c : c # 61)
    IN  [i \in 1..Len(std) |-> IF std[i] = 43 THEN 45 ELSE IF std[i] = 47 THEN 95 ELSE std[i]]

\* String.prototype.slice(start) for a start that is 0 or negative
SliceFrom(s, start) ==
    IF start = 0 \/ -start >= Len(s) THEN s ELSE SubSeq(s, Len(s) + start + 1, Len(s))

\* getCbRequestId(length); randByte is the outcome of crypto.randomBytes(length)
GetCbRequestId(randByte, length) ==
    LET reqId == SelectSeq(Base64UrlEncode(randByte), LAMBDA c : c \notin {45, 47, 95})
    IN  SliceFrom(reqId, -length)

\* generateRandomString(length); randByte is the outcome of
\* crypto.randomBytes(length)
GenerateRandomString(randByte, length) == ToUpperCase(SubSeq(HexEncode(randByte), 1, length))

-----------------------------------------------------------------------------
(* src/libs/hmac/index.ts: generateSignature                               *)

\* hmac.digest() of createHmac("sha256", key) after update(message): 32 bytes
\* that depend on the key and the message
HmacSha256(key, message) ==
    LET h == (3 * SumSeq(Utf8Encode(key)) + 5 * SumSeq(Utf8Encode(message))
                + 7 * Len(message)) % 256
    IN  [j \in 1..32 |-> (h + 29 * j) % 256]

\* generateSignature({cu, sc, nonce}) = `${cu} ${nonce} ${digest in base64}`
GenerateSignature(cu, sc, nonce) ==
    cu \o <<32>> \o nonce \o <<32>> \o Base64Encode(HmacSha256(sc, cu \o nonce))

-----------------------------------------------------------------------------
(* The RSA provider: crypto.publicEncrypt as index.ts:83 uses it, and the  *)
(* private-key operation of the gateway that holds the other half          *)

\* the key pairs that exist
KeyIds == {1, 2}

\* the base64 text (SPKI DER) of public key k: 70 characters, so that its PEM
\* has a full line and a shorter one
KeyBase64(k) == [i \in 1..70 |-> B64Chars[((7 * i + 13 * k) % 64) + 1]]

RSA_PKCS1_PADDING == 1

\* the key a PEM text holds: k when its body is the base64 text of public key
\* k between the SPKI delimiters, 0 when the provider cannot read a key from it
ParsePublicKey(pem) ==
    LET h == Len(PublicKeyHeader)
        f == Len(PublicKeyFooter)
        framed == /\ Len(pem) >= h + f
                  /\ SubSeq(pem, 1, h) = PublicKeyHeader
                  /\ SubSeq(pem, Len(pem) - f + 1, Len(pem)) = PublicKeyFooter
        body == SelectSeq(SubSeq(pem, h + 1, Len(pem) - f),
                          LAMBDA c : ~IsLineTerminator(c) /\ c # 32)
        ks == {k \in KeyIds : body = KeyBase64(k)}
    IN  IF framed /\ ks # {} THEN CHOOSE k \in ks : TRUE ELSE 0

\* crypto.publicEncrypt({key, padding}, buffer); rnd is the random padding.
\* The ciphertext opens only under the private half of the same key pair and
\* the same padding scheme.
PublicEncrypt(pem, padding, buffer, rnd) ==
    LET k == ParsePublicKey(pem)
    IN  IF k = 0 THEN Err(<<"error:1E08010C:DECODER routines::unsupported">>)
        ELSE Ok(Buf(<<padding, rnd, (97 * k + rnd) % 256>>
                    \o [i \in 1..Len(buffer) |-> (buffer[i] + 31 * k + rnd) % 256]))

\* the private-key operation under key pair k and the padding scheme
PrivateDecrypt(k, padding, cipherText) ==
    IF \/ Len(cipherText) < 3
       \/ cipherText[1] # padding
       \/ cipherText[3] # (97 * k + cipherText[2]) % 256
    THEN Err(<<"error:02000084:rsa routines::data too large for modulus">>)
    ELSE Ok(Buf([i \in 1..(Len(cipherText) - 3) |->
                    (cipherText[i + 3] + 512 - 31 * k - cipherText[2]) % 256]))

\* the base64 text (PKCS#1 DER) of the private half of RSA key pair k
RsaPrivateBase64(k) == [i \in 1..80 |-> B64Chars[((11 * i + 17 * k) % 64) + 1]]

\* the base64 texts of an EC private key (SEC1 DER) and of its public key (SPKI)
EcPrivateBase64 == [i \in 1..40 |-> B64Chars[((5 * i + 3) % 64) + 1]]

EcPublicBase64 == [i \in 1..40 |-> B64Chars[((9 * i + 1) % 64) + 1]]

\* "RSA PRIVATE KEY", "EC PRIVATE KEY", "PUBLIC KEY"
RsaPrivateLabel == <<82, 83, 65, 32, 80, 82, 73, 86, 65, 84, 69, 32, 75, 69, 89>>

EcPrivateLabel == <<69, 67, 32, 80, 82, 73, 86, 65, 84, 69, 32, 75, 69, 89>>

PublicLabel == <<80, 85, 66, 76, 73, 67, 32, 75, 69, 89>>

\* the PEM text of a label and a base64 body, in lines of 64 characters
PemOf(label, base64) ==
    BeginMark \o label \o Dashes \o <<10>> \o JoinLines(MatchLines(base64)) \o <<10>>
    \o EndMark \o label \o Dashes

\* crypto.createPrivateKey({key, format: "pem"}): the key object, or the
\* provider's error for a text that holds no private key (a public key, a
\* corrupt body).  The provider reads keys of every type it knows, RSA or not,
\* and does not mind white space around the PEM.
CreatePrivateKey(key) ==
    LET t == Trim(key)
        ks == {k \in KeyIds : t = PemOf(RsaPrivateLabel, RsaPrivateBase64(k))}
    IN  IF ks # {} THEN Ok([type |-> "rsa", pair |-> CHOOSE k \in ks : TRUE])
        ELSE IF t = PemOf(EcPrivateLabel, EcPrivateBase64) THEN Ok([type |-> "ec", pair |-> 0])
        ELSE Err(<<"error:1E08010C:DECODER routines::unsupported">>)

\* crypto.createPublicKey(privateKey).export({type: "spki", format: "pem"}):
\* the SPKI PEM of the public half, with a line break at its end
ExportSpki(privateKey) ==
    PemOf(PublicLabel, IF privateKey.type = "rsa" THEN KeyBase64(privateKey.pair)
                       ELSE EcPublicBase64) \o <<10>>

InvalidPemMsg == <<"Invalid PEM format for private key">>

DeriveFailedPrefix == "Failed to derive public key from private key"

\* deriveRsaPublicKey(privateKeyPem): its outcome, and whether the provider's
\* key parser was called
DeriveRsaPublicKeyCall(privateKeyPem) ==
    IF ~IsValidPEM(privateKeyPem) THEN [result |-> Err(InvalidPemMsg), parsed |-> FALSE]
    ELSE LET privateKey == CreatePrivateKey(privateKeyPem.v)
         IN  IF privateKey.ok
             THEN [result |-> Ok(Str(ExportSpki(privateKey.value))), parsed |-> TRUE]
             ELSE [result |-> Err(<<DeriveFailedPrefix>> \o privateKey.error),
                   parsed |-> TRUE]

DeriveRsaPublicKey(privateKeyPem) == DeriveRsaPublicKeyCall(privateKeyPem).result

RSA_PKCS1_OAEP_PADDING == 4

\* the padding a ciphertext is made under: PKCS1 v1.5, or OAEP with the hash
\* that is used for the label and the mask
PaddingOf(padding, oaepHash) ==
    IF padding = RSA_PKCS1_OAEP_PADDING
    THEN RSA_PKCS1_OAEP_PADDING + (IF oaepHash = "sha256" THEN 32 ELSE 20)
    ELSE padding

\* encrypt(buffer, rsaPublicKey, base64, paddingScheme) of util.ts; rnd is the
\* provider's random padding
RsaEncrypt(buffer, rsaPublicKey, base64, paddingScheme, rnd) ==
    IF ~Truthy(buffer) THEN Err(<<"Text to encrypt cannot be empty">>)
    ELSE IF ~Truthy(rsaPublicKey) THEN Err(<<"RSA public key is required">>)
    ELSE LET padding == IF paddingScheme = "OAEP" THEN RSA_PKCS1_OAEP_PADDING
                        ELSE RSA_PKCS1_PADDING
             oaepHash == IF paddingScheme = "OAEP" THEN "sha256" ELSE "sha1"
             encryptedBuffer == PublicEncrypt(rsaPublicKey.v, PaddingOf(padding, oaepHash),
                                              AsBytes(buffer), rnd)
         IN  IF ~encryptedBuffer.ok
             THEN Err(<<"RSA encryption failed">> \o encryptedBuffer.error)
             ELSE IF base64 THEN Ok(Str(Base64Encode(encryptedBuffer.value.v)))
             ELSE encryptedBuffer

\* crypto.privateDecrypt({key, padding, oaepHash}, buffer) with the key as a
\* PEM text
PrivateDecryptPem(key, padding, oaepHash, buffer) ==
    LET privateKey == CreatePrivateKey(key)
    IN  IF ~privateKey.ok THEN Err(privateKey.error)
        ELSE IF privateKey.value.type # "rsa"
        THEN Err(<<"error:03000096:digital envelope routines::operation not supported for this keytype">>)
        ELSE PrivateDecrypt(privateKey.value.pair, PaddingOf(padding, oaepHash), buffer)

\* nodeforge.pki.privateKeyFromPem(pem): the key pair, or forge's error
PrivateKeyFromPem(pem) ==
    LET t == Trim(pem)
        ks == {k \in KeyIds : t = PemOf(RsaPrivateLabel, RsaPrivateBase64(k))}
    IN  IF ks # {} THEN Ok(CHOOSE k \in ks : TRUE)
        ELSE IF PemPatternTest(t)
        THEN Err(<<"Could not convert private key from PEM; PEM header type is not \"PRIVATE KEY\" or \"RSA PRIVATE KEY\".">>)
        ELSE Err(<<"Invalid PEM formatted message.">>)

\* buffer.toString("binary"): one code unit per byte
ToBinaryString(bytes) == [i \in 1..Len(bytes) |-> bytes[i]]

\* Buffer.from(string, "utf8"), which is not what decryptWithNodeforge calls
BufferFromUtf8(string) == Utf8Encode(string)

\* Buffer.from(string, "binary"): the low byte of each code unit
BufferFromBinary(string) == [i \in 1..Len(string) |-> string[i] % 256]

\* privateKey.decrypt(data, scheme, {md}) of node-forge on binary strings:
\* the scheme names of forge are those of the provider's paddings, and the
\* hash of the mask is the md unless another is given
ForgeDecrypt(privateKey, data, scheme, md) ==
    LET padding == IF scheme = "RSA-OAEP" THEN RSA_PKCS1_OAEP_PADDING ELSE RSA_PKCS1_PADDING
        opened == PrivateDecrypt(privateKey, PaddingOf(padding, md), BufferFromBinary(data))
    IN  IF opened.ok THEN Ok(ToBinaryString(opened.value.v))
        ELSE Err(<<IF scheme = "RSA-OAEP" THEN "Invalid RSAES-OAEP padding."
                   ELSE "Encryption block is invalid.">>)

\* decryptWithNodeforge(cipherText, rsaPrivateKey, paddingScheme)
DecryptWithNodeforge(cipherText, rsaPrivateKey, paddingScheme) ==
    IF ~Truthy(cipherText) THEN Err(<<"Cipher text cannot be empty">>)
    ELSE IF ~Truthy(rsaPrivateKey) THEN Err(<<"RSA private key is required">>)
    ELSE LET privateKey == PrivateKeyFromPem(rsaPrivateKey.v)
             encryptedBytes == IF cipherText.t = "Buffer" THEN ToBinaryString(cipherText.v)
                               ELSE cipherText.v
             opened == IF paddingScheme = "PKCS1"
                          THEN ForgeDecrypt(privateKey.value, encryptedBytes,
                                            "RSAES-PKCS1-V1_5", "none")
                          ELSE ForgeDecrypt(privateKey.value, encryptedBytes,
                                            "RSA-OAEP", "sha256")
         IN  IF ~privateKey.ok
             THEN Err(<<"RSA decryption with node-forge failed">> \o privateKey.error)
             ELSE IF ~opened.ok
             THEN Err(<<"RSA decryption with node-forge failed">> \o opened.error)
             ELSE Ok(Buf(BufferFromBinary(opened.value)))

\* decrypt(cipherText, rsaPrivateKey, paddingScheme) of util.ts
RsaDecrypt(cipherText, rsaPrivateKey, paddingScheme) ==
    IF paddingScheme = "PKCS1"
    THEN DecryptWithNodeforge(cipherText, rsaPrivateKey, paddingScheme)
    ELSE IF ~Truthy(cipherText) THEN Err(<<"Cipher text cannot be empty">>)
    ELSE IF ~Truthy(rsaPrivateKey) THEN Err(<<"RSA private key is required">>)
    ELSE LET padding == IF paddingScheme = "OAEP" THEN RSA_PKCS1_OAEP_PADDING
                        ELSE RSA_PKCS1_PADDING
             oaepHash == IF paddingScheme = "OAEP" THEN "sha256" ELSE "sha1"
             decryptedBuffer == PrivateDecryptPem(rsaPrivateKey.v, padding, oaepHash,
                                                  AsBytes(cipherText))
         IN  IF decryptedBuffer.ok THEN decryptedBuffer
             ELSE Err(<<"RSA decryption failed">> \o decryptedBuffer.error)

-----------------------------------------------------------------------------
(* JSON texts of index.ts                                                  *)

\* "/v1/direct_credit/transaction/account/verify"
apiEndpoint == <<47, 118, 49, 47, 100, 105, 114, 101, 99, 116, 95, 99, 114, 101, 100, 105, 116,
                 47, 116, 114, 97, 110, 115, 97, 99, 116, 105, 111, 110, 47, 97, 99, 99, 111,
                 117, 110, 116, 47, 118, 101, 114, 105, 102, 121>>

\* JSON.stringify(apiPayload): {"toBankBicCode":..,"toAccountNo":..,
\* "trnAmount":15,"clientRequestNo":..,"reqRefNo":..}; the field values of the
\* model hold no character that JSON escapes
StringifyApiPayload(toBankBicCode, toAccountNo, clientRequestNo, ref) ==
    <<123, 34, 116, 111, 66, 97, 110, 107, 66, 105, 99, 67, 111, 100, 101, 34, 58, 34>>
    \o toBankBicCode
    \o <<34, 44, 34, 116, 111, 65, 99, 99, 111, 117, 110, 116, 78, 111, 34, 58, 34>>
    \o toAccountNo
    \o <<34, 44, 34, 116, 114, 110, 65, 109, 111, 117, 110, 116, 34, 58, 49, 53, 44, 34, 99,
         108, 105, 101, 110, 116, 82, 101, 113, 117, 101, 115, 116, 78, 111, 34, 58, 34>>
    \o clientRequestNo
    \o <<34, 44, 34, 114, 101, 113, 82, 101, 102, 78, 111, 34, 58, 34>>
    \o ref
    \o <<34, 125>>

InnerOpen == <<123, 34, 117, 114, 108, 34, 58, 34>>

InnerMiddle == <<34, 44, 34, 98, 97, 115, 101, 54, 52, 34, 58, 34>>

InnerClose == <<34, 125>>

\* JSON.stringify(innerPayload): {"url":..,"base64":..}
StringifyInnerPayload(inner) == InnerOpen \o inner.url \o InnerMiddle \o inner.base64 \o InnerClose

\* the counterpart's JSON.parse of an inner envelope text: [ok, url, base64]
ParseInnerPayload(text) ==
    LET o == Len(InnerOpen)
        m == Len(InnerMiddle)
        c == Len(InnerClose)
        at == {i \in (o + 1)..(Len(text) - m - c + 1) : SubSeq(text, i, i + m - 1) = InnerMiddle}
        i == CHOOSE x \in at : \A y \in at : x <= y
    IN  IF /\ Len(text) >= o + m + c
           /\ SubSeq(text, 1, o) = InnerOpen
           /\ SubSeq(text, Len(text) - c + 1, Len(text)) = InnerClose
           /\ at # {}
        THEN [ok |-> TRUE, url |-> SubSeq(text, o + 1, i - 1),
              base64 |-> SubSeq(text, i + m, Len(text) - c)]
        ELSE [ok |-> FALSE, url |-> <<>>, base64 |-> <<>>]

-----------------------------------------------------------------------------
(* src/index.ts: the state of one run                                      *)

NoFailure == [step |-> "", error |-> <<>>, carries |-> Undefined]

NoResponse == [ok |-> FALSE, status |-> 0, body |-> Undefined]

NoGateway == [keypair |-> 0, processed |-> FALSE, sessionKey |-> NoResult, payload |-> NoResult,
              answered |-> FALSE, plaintext |-> <<>>, iv |-> <<>>, faithful |-> FALSE]

\* the script of index.ts before the module is loaded (it takes no part in
\* SpecAes, whose caller uses the library alone)
RunIdle ==
    /\ pc = "IDLE"
    /\ envv = Undefined
    /\ reqRefNo = <<>>
    /\ apiPayload = <<>>
    /\ innerPayload = Undefined
    /\ aesKey = Undefined
    /\ rawIv = Undefined
    /\ aesOut = NoResult
    /\ wk = NoResult
    /\ requestBody = Undefined
    /\ headers = Undefined
    /\ response = NoResponse
    /\ res = Undefined
    /\ decrypted = NoResult
    /\ failure = NoFailure
    /\ trace = <<>>
    /\ cipherLog = <<>>
    /\ gateway = NoGateway

-----------------------------------------------------------------------------
(* src/index.ts: the environment and the steps up to the request           *)

EnvNames == {"NODE_ENV", "CB_SERVICE", "CB_CLIENT_ID", "CB_SECRET", "CB_CLIENT",
             "CB_ACCESS_TOKEN", "RSA_PUBLIC_KEY", "TO_BANK_BIC", "TO_BANK_ACC"}

\* an environment: "production", "svc", "client-1", "s3cret", "corp", "token-1",
\* the configured key text, "004" and the account number
EnvOf(rsaPublicKey, toBankAcc) ==
    [NODE_ENV |-> Str(<<112, 114, 111, 100, 117, 99, 116, 105, 111, 110>>),
     CB_SERVICE |-> Str(<<115, 118, 99>>),
     CB_CLIENT_ID |-> Str(<<99, 108, 105, 101, 110, 116, 45, 49>>),
     CB_SECRET |-> Str(<<115, 51, 99, 114, 101, 116>>),
     CB_CLIENT |-> Str(<<99, 111, 114, 112>>),
     CB_ACCESS_TOKEN |-> Str(<<116, 111, 107, 101, 110, 45, 49>>),
     RSA_PUBLIC_KEY |-> rsaPublicKey,
     TO_BANK_BIC |-> Str(<<48, 48, 52>>),
     TO_BANK_ACC |-> toBankAcc]

\* the key texts an operator may have configured: the base64 of a key, "!!",
\* or nothing
ConfiguredKeys == {Str(KeyBase64(k)) : k \in KeyIds} \cup {Str(<<33, 33>>), Undefined}

\* account numbers: "1234567890" and one with a two-byte character
AccountNumbers == {Str(<<49, 50, 51, 52, 53, 54, 55, 56, 57, 48>>), Str(<<233, 49>>)}

Envs == {EnvOf(k, a) : k \in ConfiguredKeys, a \in AccountNumbers}

\* compiler.Check(parsedEnv): every variable of the structure is a string
EnvCheck(e) == \A n \in EnvNames : e[n].t = "string"

\* outcomes of crypto.randomBytes(6) in generateRandomString(6)
RefRandoms == {[i \in 1..6 |-> 0], [i \in 1..6 |-> 171]}

\* outcomes of createId().slice(0, 20): "c1d2e3f4g5h6i7j8k9l0"
ClientRequestNos == {<<99, 49, 100, 50, 101, 51, 102, 52, 103, 53, 104, 54, 105, 55, 106, 56,
                       107, 57, 108, 48>>}

\* outcomes of crypto.randomBytes(32), the session key
SessionKeys == {[i \in 1..32 |-> (5 * i) % 256], [i \in 1..32 |-> (200 + i) % 256]}

\* outcomes of the random padding of crypto.publicEncrypt
PaddingRandoms == {7, 201}

\* outcomes of crypto.randomBytes(32) in generateRandomString(32)
NonceRandoms == {[i \in 1..32 |-> (3 * i) % 256]}

\* the mutation of Fail: the error is noted and the request is sent again
FailAndRetry(step, error, carries) ==
    /\ pc' = "TRANSMIT"
    /\ failure' = [step |-> step, error |-> error, carries |-> carries]

\* an Error thrown at the top level of the module and caught nowhere: the run
\* ends
Fail(step, error, carries) ==
    /\ pc' = "FAILURE"
    /\ failure' = [step |-> step, error |-> error, carries |-> carries]

RunInit ==
    /\ pc = "LOAD-ENV"
    /\ envv \in Envs
    /\ reqRefNo = <<>>
    /\ apiPayload = <<>>
    /\ innerPayload = Undefined
    /\ aesKey = Undefined
    /\ rawIv = Undefined
    /\ aesOut = NoResult
    /\ wk = NoResult
    /\ requestBody = Undefined
    /\ headers = Undefined
    /\ response = NoResponse
    /\ res = Undefined
    /\ decrypted = NoResult
    /\ failure = NoFailure
    /\ trace = <<>>
    /\ cipherLog = <<>>
    /\ gateway \in {[NoGateway EXCEPT !.keypair = k] : k \in KeyIds}

\* env.ts:21-28, run when index.ts imports ./libs
LoadEnv ==
    /\ pc = "LOAD-ENV"
    /\ IF EnvCheck(envv)
       THEN pc' = "BUILD" /\ UNCHANGED failure
       ELSE Fail("LOAD-ENV", <<"Invalid environment variables">>, Undefined)
    /\ UNCHANGED <<envv, reqRefNo, apiPayload, innerPayload, aesKey, rawIv, aesOut, wk,
                   requestBody, headers, response, res, decrypted, trace, cipherLog, gateway>>
    /\ UNCHANGED <<hVars, uVars, cVars>>

\* index.ts:41-61: reqRefNo, apiPayload, innerPayload
Build ==
    /\ pc = "BUILD"
    /\ \E randByte \in RefRandoms, clientRequestNo \in ClientRequestNos :
         LET ref == GenerateRandomString(randByte, 6)
             text == StringifyApiPayload(envv.TO_BANK_BIC.v, envv.TO_BANK_ACC.v,
                                         clientRequestNo, ref)
         IN  /\ reqRefNo' = ref
             /\ apiPayload' = text
             /\ innerPayload' = [url |-> apiEndpoint,
                                 base64 |-> Base64Encode(Utf8Encode(text))]
    /\ pc' = "KEY-GEN"
    /\ trace' = Append(trace, "BUILD")
    /\ UNCHANGED <<envv, aesKey, rawIv, aesOut, wk, requestBody, headers, response, res,
                   decrypted, failure, cipherLog, gateway>>
    /\ UNCHANGED <<hVars, uVars, cVars>>

\* index.ts:67-69: the session key and the IV from reqRefNo
KeyGen ==
    /\ pc = "KEY-GEN"
    /\ \E k \in SessionKeys : aesKey' = Buf(k)
    /\ rawIv' = Buf(Utf8Encode(reqRefNo))
    /\ pc' = "SYMMETRIC-ENCRYPT"
    /\ trace' = Append(trace, "KEY-GEN")
    /\ UNCHANGED <<envv, reqRefNo, apiPayload, innerPayload, aesOut, wk, requestBody, headers,
                   response, res, decrypted, failure, cipherLog, gateway>>
    /\ UNCHANGED <<hVars, uVars, cVars>>

\* index.ts:72-76: aesEncrypt(JSON.stringify(innerPayload), aesKey, rawIv)
SymmetricEncrypt ==
    /\ pc = "SYMMETRIC-ENCRYPT"
    /\ LET r == Encrypt(Str(StringifyInnerPayload(innerPayload)), aesKey, rawIv, <<>>)
       IN  /\ aesOut' = r
           /\ cipherLog' = Append(cipherLog, [op |-> "encrypt", key |-> aesKey, iv |-> rawIv,
                                              ran |-> r.ok])
           /\ IF r.ok THEN pc' = "KEY-WRAP" /\ UNCHANGED failure
              ELSE Fail("SYMMETRIC-ENCRYPT", r.error, Undefined)
    /\ trace' = Append(trace, "SYMMETRIC-ENCRYPT")
    /\ UNCHANGED <<envv, reqRefNo, apiPayload, innerPayload, aesKey, rawIv, wk, requestBody,
                   headers, response, res, decrypted, gateway>>
    /\ UNCHANGED <<hVars, uVars, cVars>>

\* index.ts:81-96: convertToPem, crypto.publicEncrypt of aesKey, requestBody
KeyWrap ==
    /\ pc = "KEY-WRAP"
    /\ \E rnd \in PaddingRandoms :
         LET pubKey == ConvertToPem(envv.RSA_PUBLIC_KEY.v, "PUBLIC_KEY")
             r == PublicEncrypt(pubKey, RSA_PKCS1_PADDING, aesKey.v, rnd)
         IN  /\ wk' = r
             /\ cipherLog' = Append(cipherLog, [op |-> "wrap", key |-> aesKey, iv |-> Undefined,
                                                ran |-> r.ok])
             /\ IF r.ok
                THEN /\ requestBody' =
                          [wk |-> Base64Encode(r.value.v),
                           payload |-> Base64Encode(HexDecode(aesOut.value.fullCiphertext.v)),
                           reqRefNo |-> reqRefNo]
                     /\ pc' = "SIGN"
                     /\ UNCHANGED failure
                ELSE /\ Fail("KEY-WRAP", r.error, Undefined)
                     /\ UNCHANGED requestBody
    /\ trace' = Append(trace, "KEY-WRAP")
    /\ UNCHANGED <<envv, reqRefNo, apiPayload, innerPayload, aesKey, rawIv, aesOut, headers,
                   response, res, decrypted, gateway>>
    /\ UNCHANGED <<hVars, uVars, cVars>>

\* index.ts:102-112: the headers, with the signature over a fresh nonce
Sign ==
    /\ pc = "SIGN"
    /\ \E randByte \in NonceRandoms :
         headers' = [ContentType |-> "application/json;charset=UTF-8",
                     XSignature |-> GenerateSignature(envv.CB_CLIENT_ID.v, envv.CB_SECRET.v,
                                                      GenerateRandomString(randByte, 32)),
                     XToken |-> envv.CB_ACCESS_TOKEN.v,
                     XClientName |-> envv.CB_CLIENT.v]
    /\ pc' = "TRANSMIT"
    /\ trace' = Append(trace, "SIGN")
    /\ UNCHANGED <<envv, reqRefNo, apiPayload, innerPayload, aesKey, rawIv, aesOut, wk,
                   requestBody, response, res, decrypted, failure, cipherLog, gateway>>
    /\ UNCHANGED <<hVars, uVars, cVars>>

\* index.ts:114: fetch is called and awaited
Transmit ==
    /\ pc = "TRANSMIT"
    /\ pc' = "AWAIT-FETCH"
    /\ trace' = Append(trace, "TRANSMIT")
    /\ UNCHANGED <<envv, reqRefNo, apiPayload, innerPayload, aesKey, rawIv, aesOut, wk,
                   requestBody, headers, response, res, decrypted, failure, cipherLog, gateway>>
    /\ UNCHANGED <<hVars, uVars, cVars>>

-----------------------------------------------------------------------------
(* The counterpart: the gateway that receives requestBody and answers      *)

\* "0000"
SuccessCode == <<48, 48, 48, 48>>

\* "9999"
ErrorCode == <<57, 57, 57, 57>>

\* what the gateway makes of a request body with the private half of key pair
\* keypair: the session key it unwraps (PKCS1 v1.5) and the business payload
\* it recovers by opening body.payload under that key and the UTF-8 bytes of
\* body.reqRefNo, parsing the inner envelope and decoding its base64 field
GatewayProcess(body, keypair) ==
    LET unwrapped == PrivateDecrypt(keypair, RSA_PKCS1_PADDING, Base64Decode(body.wk))
        full == Base64Decode(body.payload)
        n == Len(full) - DEFAULT_TAG_LENGTH
        opened == IF unwrapped.ok /\ n >= 0
                  THEN ProviderDecrypt(unwrapped.value, Buf(Utf8Encode(body.reqRefNo)),
                                       Buf(SubSeq(full, 1, n)), Buf(SubSeq(full, n + 1, Len(full))))
                  ELSE Err(<<"no session key">>)
        inner == IF opened.ok THEN ParseInnerPayload(Utf8Decode(opened.value.v))
                 ELSE [ok |-> FALSE, url |-> <<>>, base64 |-> <<>>]
    IN  [sessionKey |-> unwrapped,
         inner |-> inner,
         payload |-> IF inner.ok THEN Ok(Str(Utf8Decode(Base64Decode(inner.base64))))
                     ELSE Err(<<"request not readable">>)]

\* a response body, as response.json() yields it
ResponseBody(respCode, ref, respRefNo, text) ==
    [json |-> TRUE, respCode |-> respCode, respDesc |-> "", reqRefNo |-> ref,
     respRefNo |-> respRefNo, statusCode |-> 200, response |-> text]

\* a body that is no JSON text
NoJsonBody == [json |-> FALSE, respCode |-> <<>>, respDesc |-> "", reqRefNo |-> <<>>,
               respRefNo |-> <<>>, statusCode |-> 0, response |-> <<>>]

\* the gateway's encryption of a response plaintext: AES-256-GCM under the
\* session key and the UTF-8 bytes of respRefNo, ciphertext || tag
SealedResponse(key, respRefNo, plaintext) ==
    LET iv == Utf8Encode(respRefNo)
        ct == GcmCrypt(key, iv, Utf8Encode(plaintext))
    IN  ct \o GcmTag(key, iv, ct)

\* response reference numbers the gateway may choose: "R00001", "R0001",
\* "R0000000000000001", or the request's own
RespRefNos(ref) == {<<82, 48, 48, 48, 48, 49>>, <<82, 48, 48, 48, 49>>,
                    <<82, 48, 48, 48, 48, 48, 48, 48, 48, 48, 48, 48, 48, 48, 48, 48, 49>>, ref}

\* response plaintexts: {"a":1}, "not json" and the empty text
ResponsePlaintexts == {<<123, 34, 97, 34, 58, 49, 125>>,
                       <<110, 111, 116, 32, 106, 115, 111, 110>>, <<>>}

\* the reqRefNo a response carries: the request's, or "XXXXXX"
EchoRefs(ref) == {ref, <<88, 88, 88, 88, 88, 88>>}

\* the texts JSON.parse accepts, among those that occur: {"a":1} and {}
JsonTexts == {<<123, 34, 97, 34, 58, 49, 125>>, <<123, 125>>}

\* the answers of a gateway with key pair keypair to a request body: the body
\* of each, and the gateway's record of it
GatewayAnswers(body, keypair) ==
    LET g == GatewayProcess(body, keypair)
        seen == [NoGateway EXCEPT !.keypair = keypair, !.processed = TRUE,
                                  !.sessionKey = g.sessionKey, !.payload = g.payload]
        refused == [body |-> ResponseBody(ErrorCode, body.reqRefNo, <<82, 48, 48, 48, 48, 49>>, <<>>),
                    gw |-> seen]
    IN  IF ~g.payload.ok THEN {refused}
        ELSE {refused}
             \cup {[body |-> ResponseBody(SuccessCode, echo, rr,
                                Base64Encode(SealedResponse(g.sessionKey.value.v, rr, pt))),
                    gw |-> [seen EXCEPT !.answered = TRUE, !.plaintext = pt, !.iv = rr,
                                        !.faithful = TRUE]] :
                      echo \in EchoRefs(body.reqRefNo), rr \in RespRefNos(body.reqRefNo),
                      pt \in ResponsePlaintexts}
             \cup UNION {
                    {[body |-> ResponseBody(SuccessCode, body.reqRefNo, rr, Base64Encode(bytes)),
                      gw |-> [seen EXCEPT !.answered = TRUE, !.plaintext = <<123, 125>>, !.iv = rr]] :
                        bytes \in {FlipBit(SealedResponse(g.sessionKey.value.v, rr, <<123, 125>>), 1, 0),
                                   SubSeq(SealedResponse(g.sessionKey.value.v, rr, <<123, 125>>), 1, 9)}} :
                    rr \in {<<82, 48, 48, 48, 48, 49>>, <<>>}}

-----------------------------------------------------------------------------
(* src/index.ts: the response                                              *)

\* index.ts:114-122: the awaited fetch settles: it rejects, or resolves to a
\* response whose status is checked
FetchSettles ==
    /\ pc = "AWAIT-FETCH"
    /\ \/ /\ Fail("TRANSMIT", <<"fetch failed">>, Undefined)
          /\ UNCHANGED <<response, gateway>>
       \/ /\ response' = [ok |-> FALSE, status |-> 500, body |-> NoJsonBody]
          /\ Fail("TRANSMIT", <<"Gateway request failed", "500">>, Undefined)
          /\ UNCHANGED gateway
       \/ \E a \in GatewayAnswers(requestBody, gateway.keypair)
                     \cup {[body |-> NoJsonBody, gw |-> gateway]} :
            /\ response' = [ok |-> TRUE, status |-> 200, body |-> a.body]
            /\ gateway' = a.gw
            /\ pc' = "AWAIT-JSON"
            /\ UNCHANGED failure
    /\ UNCHANGED <<envv, reqRefNo, apiPayload, innerPayload, aesKey, rawIv, aesOut, wk,
                   requestBody, headers, res, decrypted, trace, cipherLog>>
    /\ UNCHANGED <<hVars, uVars, cVars>>

\* index.ts:124-131: the awaited response.json() settles
JsonSettles ==
    /\ pc = "AWAIT-JSON"
    /\ IF response.body.json
       THEN res' = response.body /\ pc' = "VALIDATE" /\ UNCHANGED failure
       ELSE Fail("TRANSMIT", <<"SyntaxError", "Failed to parse JSON">>, Undefined) /\ UNCHANGED res
    /\ UNCHANGED <<envv, reqRefNo, apiPayload, innerPayload, aesKey, rawIv, aesOut, wk,
                   requestBody, headers, response, decrypted, trace, cipherLog, gateway>>
    /\ UNCHANGED <<hVars, uVars, cVars>>

\* the mutation of IsBusinessFailure: only an absent code is a failure
IsBusinessFailureWhenAbsent(r) == r.respCode = <<>>

\* index.ts:134: res.respCode !== "0000"
IsBusinessFailure(r) == r.respCode # SuccessCode

\* the mutation of Validate: on a business failure the request is awaited
\* again
ValidateRetries ==
    /\ pc = "VALIDATE"
    /\ IF IsBusinessFailure(res)
       THEN pc' = "AWAIT-FETCH" /\ UNCHANGED <<failure, trace>>
       ELSE pc' = "DECRYPT" /\ trace' = Append(trace, "VALIDATE") /\ UNCHANGED failure
    /\ UNCHANGED <<envv, reqRefNo, apiPayload, innerPayload, aesKey, rawIv, aesOut, wk,
                   requestBody, headers, response, res, decrypted, cipherLog, gateway>>
    /\ UNCHANGED <<hVars, uVars, cVars>>

\* index.ts:134-136: the business response code; the error's message holds
\* the whole of res
Validate ==
    /\ pc = "VALIDATE"
    /\ IF IsBusinessFailure(res)
       THEN Fail("VALIDATE", <<"Endpoint Request failed">>, res)
       ELSE pc' = "DECRYPT" /\ UNCHANGED failure
    /\ trace' = Append(trace, "VALIDATE")
    /\ UNCHANGED <<envv, reqRefNo, apiPayload, innerPayload, aesKey, rawIv, aesOut, wk,
                   requestBody, headers, response, res, decrypted, cipherLog, gateway>>
    /\ UNCHANGED <<hVars, uVars, cVars>>

\* index.ts:145
RawResponse(r) == Buf(Base64Decode(r.response))

\* the mutation of DecryptIv: the IV of the request
DecryptIvOfRequest(r) == Buf(Utf8Encode(r.reqRefNo))

\* index.ts:146
DecryptIv(r) == Buf(Utf8Encode(r.respRefNo))

\* the mutation of DecryptKey: a key generated anew
DecryptKeyRegenerated == Buf([i \in 1..DEFAULT_KEY_LENGTH |-> (9 * i) % 256])

\* index.ts:148: the key argument of decryptFullCiphertext
DecryptKey == aesKey

\* index.ts:145-150: decryptFullCiphertext with the session key and the IV
\* from respRefNo, then JSON.parse of the plaintext
DecryptResponse ==
    /\ pc = "DECRYPT"
    /\ LET c == DecryptFullCiphertextCall(RawResponse(res), DecryptIv(res), DecryptKey,
                                          DEFAULT_TAG_LENGTH)
       IN  /\ decrypted' = c.result
           /\ cipherLog' = Append(cipherLog,
                  [op |-> "decrypt", key |-> DecryptKey, iv |-> DecryptIv(res),
                   ran |-> c.passed # NotPassed
                           /\ CipherivError(AsBytes(DecryptKey), AsBytes(DecryptIv(res))) = ""])
           /\ IF ~c.result.ok THEN Fail("DECRYPT", c.result.error, Undefined)
              ELSE IF Utf8Decode(c.result.value.v) \notin JsonTexts
                  THEN Fail("DECRYPT", <<"SyntaxError", "JSON Parse error">>, Undefined)
              ELSE pc' = "SUCCESS" /\ UNCHANGED failure
    /\ trace' = Append(trace, "DECRYPT")
    /\ UNCHANGED <<envv, reqRefNo, apiPayload, innerPayload, aesKey, rawIv, aesOut, wk,
                   requestBody, headers, response, res, gateway>>
    /\ UNCHANGED <<hVars, uVars, cVars>>

-----------------------------------------------------------------------------
(* A caller of the AES library: one encrypt, then one decrypt or           *)
(* decryptFullCiphertext of what encrypt returned, as returned, decoded,   *)
(* or decoded and changed.                                                 *)

\* "A" and "e acute" (two UTF-8 bytes)
Alphabet == {65, 233}

Texts == UNION {[1..n -> Alphabet] : n \in 0..MaxTextLen}

KeyOfLen(n, seed) == [i \in 1..n |-> (seed * i) % 256]

HKeys == {Buf(KeyOfLen(DEFAULT_KEY_LENGTH, 1)), Buf(KeyOfLen(DEFAULT_KEY_LENGTH, 3)),
          Buf(KeyOfLen(DEFAULT_KEY_LENGTH - 1, 1)), Buf(KeyOfLen(DEFAULT_KEY_LENGTH + 1, 1)),
          Undefined}

IvOfLen(n) == [i \in 1..n |-> (16 * i + n) % 256]

HIvLens == {0, MIN_IV_LENGTH - 1, MIN_IV_LENGTH, 12, MAX_IV_LENGTH, MAX_IV_LENGTH + 1}

HIvs == {Undefined} \cup {Buf(IvOfLen(n)) : n \in HIvLens}

\* outcomes of crypto.randomBytes(DEFAULT_IV_LENGTH)
RandomIvs == {[i \in 1..DEFAULT_IV_LENGTH |-> 0], [i \in 1..DEFAULT_IV_LENGTH |-> 250 - i]}

TagLengthArgs == {0, 1, 2, 12, DEFAULT_TAG_LENGTH, DEFAULT_TAG_LENGTH + 1}

Var(kind, field, n, bit, key) == [kind |-> kind, field |-> field, n |-> n, bit |-> bit, key |-> key]

NoVar == Var("none", "", 0, 0, Undefined)

NoCall == [fn |-> "none", form |-> "none", var |-> NoVar, data |-> NotPassed,
           full |-> Undefined, key |-> Undefined, tagLength |-> 0,
           passed |-> NotPassed, result |-> NoResult]

\* the caller's conversion of encrypt's hex strings to Buffers, as in index.ts:94
DecodedEnvelope(e) ==
    [ciphertext |-> Buf(HexDecode(e.ciphertext.v)),
     iv |-> Buf(HexDecode(e.iv.v)),
     authTag |-> Buf(HexDecode(e.authTag.v))]

\* what a caller may change in a decoded envelope d before decrypting it
Variations(d) ==
    {NoVar}
    \cup {Var("flip", "ciphertext", pos, bit, Undefined) :
            pos \in 1..Length(d.ciphertext), bit \in 0..7}
    \cup {Var("flip", "authTag", pos, bit, Undefined) :
            pos \in 1..Length(d.authTag), bit \in 0..7}
    \cup {Var("iv", "iv", n, 0, Undefined) : n \in HIvLens}
    \cup {Var("tag", "authTag", n, 0, Undefined) : n \in {0, 4, 12, 15}}
    \cup {Var("key", "", 0, 0, k) : k \in HKeys}

Varied(d, var) ==
    IF var.kind = "flip" /\ var.field = "ciphertext"
        THEN [d EXCEPT !.ciphertext = Buf(FlipBit(d.ciphertext.v, var.n, var.bit))]
    ELSE IF var.kind = "flip" /\ var.field = "authTag"
        THEN [d EXCEPT !.authTag = Buf(FlipBit(d.authTag.v, var.n, var.bit))]
    ELSE IF var.kind = "iv" THEN [d EXCEPT !.iv = Buf(IvOfLen(var.n))]
    ELSE IF var.kind = "tag" THEN [d EXCEPT !.authTag = Buf(SubSeq(d.authTag.v, 1, var.n))]
    ELSE d

HInit ==
    /\ hText \in {Str(s) : s \in Texts}
    /\ hKey \in HKeys
    /\ hIv \in HIvs
    /\ hEnc = NoResult
    /\ hCall = NoCall

\* the call encrypt(hText, hKey, hIv)
HEncrypt ==
    /\ hEnc = NoResult
    /\ \E rnd \in RandomIvs : hEnc' = Encrypt(hText, hKey, hIv, rnd)
    /\ UNCHANGED <<hText, hKey, hIv, hCall>>
    /\ UNCHANGED <<runVars, uVars, cVars>>

\* decrypt(envelope, key) with the envelope exactly as encrypt returned it
HDecryptReturned ==
    /\ hEnc.ok
    /\ hCall = NoCall
    /\ LET data == [ciphertext |-> hEnc.value.ciphertext, iv |-> hEnc.value.iv,
                    authTag |-> hEnc.value.authTag]
       IN  hCall' = [NoCall EXCEPT !.fn = "decrypt", !.form = "returned", !.data = data,
                                   !.key = hKey, !.passed = data,
                                   !.result = Decrypt(data, hKey)]
    /\ UNCHANGED <<hText, hKey, hIv, hEnc>>
    /\ UNCHANGED <<runVars, uVars, cVars>>

\* decrypt(data, key) with the hex fields decoded to Buffers, possibly changed
HDecrypt ==
    /\ hEnc.ok
    /\ hCall = NoCall
    /\ LET d == DecodedEnvelope(hEnc.value) IN \E var \in Variations(d) :
         LET data == Varied(d, var)
             key == IF var.kind = "key" THEN var.key ELSE hKey
         IN  hCall' = [NoCall EXCEPT !.fn = "decrypt", !.form = "decoded", !.var = var,
                                     !.data = data, !.key = key, !.passed = data,
                                     !.result = Decrypt(data, key)]
    /\ UNCHANGED <<hText, hKey, hIv, hEnc>>
    /\ UNCHANGED <<runVars, uVars, cVars>>

\* the tagLength arguments tried with a variation: every one of TagLengthArgs
\* for an intact, truncated or cut envelope, the default for the others
TagLengthsFor(var) ==
    IF var.kind \in {"none", "tag", "prefix"} THEN TagLengthArgs ELSE {DEFAULT_TAG_LENGTH}

\* decryptFullCiphertext(full, iv, key, tagLength) with full = ciphertext || tag
\* of the decoded, possibly changed envelope, or a prefix of it
HDecryptFull ==
    /\ hEnc.ok
    /\ hCall = NoCall
    /\ LET d == DecodedEnvelope(hEnc.value) IN
       \E var \in Variations(d) \cup {Var("prefix", "", n, 0, Undefined) : n \in {0, 1, 2, 15}} :
         \E tagLength \in TagLengthsFor(var) :
         LET data == Varied(d, var)
             whole == IF var = NoVar THEN HexDecode(hEnc.value.fullCiphertext.v)
                      ELSE data.ciphertext.v \o data.authTag.v
             full == Buf(IF var.kind = "prefix" THEN SubSeq(whole, 1, var.n) ELSE whole)
             key == IF var.kind = "key" THEN var.key ELSE hKey
             c == DecryptFullCiphertextCall(full, data.iv, key, tagLength)
         IN  hCall' = [NoCall EXCEPT !.fn = "decryptFullCiphertext", !.form = "decoded",
                                     !.var = var, !.data = data, !.full = full,
                                     !.key = key, !.tagLength = tagLength,
                                     !.passed = c.passed, !.result = c.result]
    /\ UNCHANGED <<hText, hKey, hIv, hEnc>>
    /\ UNCHANGED <<runVars, uVars, cVars>>

\* the caller before its first call (it takes no part in Spec)
HIdle ==
    /\ hText = Undefined
    /\ hKey = Undefined
    /\ hIv = Undefined
    /\ hEnc = NoResult
    /\ hCall = NoCall

InitAes == HInit /\ RunIdle /\ UIdle /\ CIdle

NextAes == HEncrypt \/ HDecryptReturned \/ HDecrypt \/ HDecryptFull

SpecAes == InitAes /\ [][NextAes]_vars

-----------------------------------------------------------------------------
(* A caller of src/libs/util.ts: one call of one of its functions          *)

\* labels a PEM text may carry: "PUBLIC KEY", "RSA PRIVATE KEY", "A", " ",
\* "Ab", "public key", "A1", "A<tab>B", "A<newline>B", "A.B" and the empty one
PemLabels == {<<80, 85, 66, 76, 73, 67, 32, 75, 69, 89>>,
              <<82, 83, 65, 32, 80, 82, 73, 86, 65, 84, 69, 32, 75, 69, 89>>,
              <<65>>, <<32>>, <<65, 98>>,
              <<112, 117, 98, 108, 105, 99, 32, 107, 101, 121>>,
              <<65, 49>>, <<65, 9, 66>>, <<65, 10, 66>>, <<65, 46, 66>>, <<>>}

\* bodies: none, a line break, "x", a base64 line between line breaks
PemBodies == {<<>>, <<10>>, <<120>>, <<10, 81, 85, 74, 68, 10>>}

\* what surrounds a text: nothing, two spaces, a line break and a tab
PemPads == {<<>>, <<32, 32>>, <<10, 9>>}

\* the parts a PEM-like text is put together from
PemParts == [lead : PemPads, hasBegin : BOOLEAN, beginLabel : PemLabels, body : PemBodies,
             hasEnd : BOOLEAN, endLabel : {<<80, 85, 66, 76, 73, 67, 32, 75, 69, 89>>, <<65>>},
             sameLabel : BOOLEAN, trail : PemPads]

\* the END label of a text of parts p
EndLabelOf(p) == IF p.sameLabel THEN p.beginLabel ELSE p.endLabel

\* the text of parts p
PemTextOf(p) ==
    p.lead
    \o (IF p.hasBegin THEN BeginMark \o p.beginLabel \o Dashes ELSE <<>>)
    \o p.body
    \o (IF p.hasEnd THEN EndMark \o EndLabelOf(p) \o Dashes ELSE <<>>)
    \o p.trail

\* parts of a text that is put together from none
NoParts == [lead |-> <<>>, hasBegin |-> FALSE, beginLabel |-> <<>>, body |-> <<>>,
            hasEnd |-> FALSE, endLabel |-> <<>>, sameLabel |-> FALSE, trail |-> <<>>]

\* what a caller may pass that is no PEM-like text: null, undefined, a number,
\* a Buffer, "", "   " and "invalid_key"
OtherKeys == {Null, Undefined, Num(5), Buf(<<45, 45>>), Str(<<>>), Str(<<32, 32, 32>>),
              Str(<<105, 110, 118, 97, 108, 105, 100, 95, 107, 101, 121>>)}

\* the call isValidPEM(key)
UIsValidPEM ==
    /\ uCall = NoUCall
    /\ \/ \E p \in PemParts :
            /\ (p.sameLabel => p.endLabel = <<65>>)
            /\ uCall' = [fn |-> "isValidPEM", key |-> Str(PemTextOf(p)), parts |-> p,
                         built |-> TRUE, result |-> IsValidPEM(Str(PemTextOf(p)))]
       \/ \E k \in OtherKeys :
            uCall' = [fn |-> "isValidPEM", key |-> k, parts |-> NoParts, built |-> FALSE,
                      result |-> IsValidPEM(k)]
    /\ UNCHANGED <<hVars, runVars, cVars>>

\* lengths of the base64 strings handed to convertToPem
Base64Lengths == {0, 1, 63, 64, 65, 127, 128, 129, 192}

\* a base64 string of n characters
Base64OfLen(n, seed) == [i \in 1..n |-> B64Chars[((7 * i + seed) % 64) + 1]]

\* base64 strings: of each length, one that ends in "=" padding, and the texts
\* of the public keys
Base64Texts == {Base64OfLen(n, seed) : n \in Base64Lengths, seed \in {0, 5}}
               \cup {Base64OfLen(66, 3) \o <<61, 61>>}
               \cup {KeyBase64(k) : k \in KeyIds}

\* other strings a caller may pass: "!!", a line break, "a<LF>b", "a<CR><LF>b",
\* 64 characters and a line break, "-----END PUBLIC KEY-----"
OtherTexts == {<<33, 33>>, <<10>>, <<97, 10, 98>>, <<97, 13, 10, 98>>,
               Base64OfLen(64, 1) \o <<10>>, PublicKeyFooter}

\* the type arguments of convertToPem; "" stands for the argument left out
PemTypes == {"PUBLIC_KEY", "PRIVATE_KEY", ""}

\* the call convertToPem(base64, type), and isValidPEM of what it returned
UConvertToPem ==
    /\ uCall = NoUCall
    /\ \E b \in Base64Texts \cup OtherTexts, type \in PemTypes :
         LET pem == ConvertToPem(b, IF type = "" THEN "PUBLIC_KEY" ELSE type)
         IN  uCall' = [fn |-> "convertToPem", base64 |-> b, isBase64 |-> b \in Base64Texts,
                       type |-> type, result |-> pem, valid |-> IsValidPEM(Str(pem))]
    /\ UNCHANGED <<hVars, runVars, cVars>>

\* the length arguments of getCbRequestId; -1 stands for the argument left out
RequestIdLengths == {-1, 0, 1, 2, 3, 6, 10}

\* outcomes of crypto.randomBytes(n): all bytes 0, all 255, all 251, a mix, and
\* 251 224 followed by zeros
RandomBytesOf(n) == {[i \in 1..n |-> 0], [i \in 1..n |-> 255], [i \in 1..n |-> 251],
                     [i \in 1..n |-> (37 * i + 190) % 256],
                     [i \in 1..n |-> IF i = 1 THEN 251 ELSE IF i = 2 THEN 224 ELSE 0]}

\* the call getCbRequestId(length)
UGetCbRequestId ==
    /\ uCall = NoUCall
    /\ \E arg \in RequestIdLengths :
         LET length == IF arg = -1 THEN 6 ELSE arg
         IN  \E randByte \in RandomBytesOf(length) :
               uCall' = [fn |-> "getCbRequestId", arg |-> arg, length |-> length,
                         randByte |-> randByte, result |-> GetCbRequestId(randByte, length)]
    /\ UNCHANGED <<hVars, runVars, cVars>>

\* what a caller may hand to deriveRsaPublicKey, with what it holds: the RSA
\* private key of each pair, bare and with white space around it; an EC
\* private key; a public key; a private key PEM with a corrupt body
\* ("INVALID_BASE64_DATA_HERE"); an RSA private key without its END line and
\* one followed by more text; and what is no PEM at all
DeriveInputs ==
    {[key |-> Str(PemOf(RsaPrivateLabel, RsaPrivateBase64(k))), holds |-> "rsa-private"] :
        k \in KeyIds}
    \cup {[key |-> Str(<<32, 10>> \o PemOf(RsaPrivateLabel, RsaPrivateBase64(1)) \o <<10>>),
           holds |-> "rsa-private"],
          [key |-> Str(PemOf(EcPrivateLabel, EcPrivateBase64)), holds |-> "ec-private"],
          [key |-> Str(ConvertToPem(KeyBase64(1), "PUBLIC_KEY")), holds |-> "public"],
          [key |-> Str(PemOf(RsaPrivateLabel,
                             <<73, 78, 86, 65, 76, 73, 68, 95, 66, 65, 83, 69, 54, 52, 95, 68,
                               65, 84, 65, 95, 72, 69, 82, 69>>)), holds |-> "corrupt"],
          [key |-> Str(BeginMark \o RsaPrivateLabel \o Dashes \o <<10>> \o RsaPrivateBase64(1)),
           holds |-> "cut"],
          [key |-> Str(PemOf(RsaPrivateLabel, RsaPrivateBase64(1)) \o <<10, 120>>),
           holds |-> "followed"]}
    \cup {[key |-> k, holds |-> "nothing"] : k \in OtherKeys}

\* the call deriveRsaPublicKey(privateKeyPem), and isValidPEM of its argument
\* and of what it returned
UDeriveRsaPublicKey ==
    /\ uCall = NoUCall
    /\ \E in \in DeriveInputs :
         LET c == DeriveRsaPublicKeyCall(in.key)
         IN  uCall' = [fn |-> "deriveRsaPublicKey", key |-> in.key, holds |-> in.holds,
                       accepted |-> IsValidPEM(in.key), parsed |-> c.parsed,
                       result |-> c.result,
                       valid |-> c.result.ok /\ IsValidPEM(c.result.value)]
    /\ UNCHANGED <<hVars, runVars, cVars>>

\* the plaintexts of the RSA round trip: empty, ASCII, Unicode text ("\u00e9"
\* in UTF-8), and binary with zero and high bytes; all fit the keys
RsaPlaintexts == {<<>>, <<72, 105>>, <<195, 169>>, <<0, 65>>, <<200, 0, 255>>, <<128>>}

RsaPaddingSchemes == {"OAEP", "PKCS1"}

\* the private keys a caller decrypts with: the private key of each pair, and
\* an EC private key
RsaPrivateKeys ==
    {[pem |-> PemOf(RsaPrivateLabel, RsaPrivateBase64(k)), pair |-> k] : k \in KeyIds}
    \cup {[pem |-> PemOf(EcPrivateLabel, EcPrivateBase64), pair |-> 0]}

\* encrypt(p, pub, base64, scheme) followed by decrypt and by
\* decryptWithNodeforge of the ciphertext under a private key and the scheme;
\* a base64 ciphertext is decoded by the caller before it is decrypted
URsaRoundTrip ==
    /\ uCall = NoUCall
    /\ \E p \in RsaPlaintexts, k \in KeyIds, priv \in RsaPrivateKeys,
          scheme \in RsaPaddingSchemes, base64 \in BOOLEAN, rnd \in PaddingRandoms :
         LET encrypted == RsaEncrypt(Buf(p), Str(ConvertToPem(KeyBase64(k), "PUBLIC_KEY")),
                                     base64, scheme, rnd)
             cipherText == IF ~encrypted.ok THEN Undefined
                           ELSE IF base64 THEN Buf(Base64Decode(encrypted.value.v))
                           ELSE encrypted.value
         IN  uCall' = [fn |-> "rsa", p |-> p, pair |-> k, privPair |-> priv.pair,
                       scheme |-> scheme, base64 |-> base64, encrypted |-> encrypted,
                       cipherText |-> cipherText,
                       primary |-> RsaDecrypt(cipherText, Str(priv.pem), scheme),
                       secondary |-> DecryptWithNodeforge(cipherText, Str(priv.pem), scheme)]
    /\ UNCHANGED <<hVars, runVars, cVars>>

InitUtil == UIdle /\ HIdle /\ RunIdle /\ CIdle

NextUtil ==
    \/ UIsValidPEM
    \/ UConvertToPem
    \/ UGetCbRequestId
    \/ UDeriveRsaPublicKey
    \/ URsaRoundTrip

SpecUtil == InitUtil /\ [][NextUtil]_vars

-----------------------------------------------------------------------------
(* One run of index.ts                                                     *)

-----------------------------------------------------------------------------
(* Concurrent invocations of src/index.ts: each evaluation of the module   *)
(* has its own top-level constants; the environment and the gateway are    *)
(* what the invocations have in common.                                     *)

Invocations == {1, 2}

\* the environment the invocations are started in
ConcEnv == EnvOf(Str(KeyBase64(1)), Str(<<49, 50, 51, 52, 53, 54, 55, 56, 57, 48>>))

\* an invocation before its first statement; generated notes the key drawn at
\* KEY-GEN and used the keys and IVs handed to the cipher
NewRun == [pc |-> "LOAD-ENV", reqRefNo |-> <<>>, apiPayload |-> <<>>,
           innerPayload |-> Undefined, aesKey |-> Undefined, rawIv |-> Undefined,
           generated |-> Undefined, aesOut |-> NoResult, wk |-> NoResult,
           requestBody |-> Undefined, headers |-> Undefined, response |-> NoResponse,
           res |-> Undefined, decrypted |-> NoResult, used |-> <<>>]

ConcInit ==
    /\ HIdle
    /\ UIdle
    /\ pc = "IDLE"
    /\ envv = ConcEnv
    /\ reqRefNo = <<>>
    /\ apiPayload = <<>>
    /\ innerPayload = Undefined
    /\ aesKey = Undefined
    /\ rawIv = Undefined
    /\ aesOut = NoResult
    /\ wk = NoResult
    /\ requestBody = Undefined
    /\ headers = Undefined
    /\ response = NoResponse
    /\ res = Undefined
    /\ decrypted = NoResult
    /\ failure = NoFailure
    /\ trace = <<>>
    /\ cipherLog = <<>>
    /\ gateway = NoGateway
    /\ runs = [i \in Invocations |-> NewRun]

\* invocation i becomes r; nothing else changes
Becomes(i, r) ==
    /\ runs' = [runs EXCEPT ![i] = r]
    /\ UNCHANGED <<hVars, uVars, runVars>>

\* the mutation of KeyOf: the key is kept in one place for all invocations
KeyOfFirst(i) == runs[1].aesKey

\* the aesKey and the rawIv an invocation's statements refer to: its own
\* constants (index.ts:67-69)
KeyOf(i) == runs[i].aesKey

IvOf(i) == runs[i].rawIv

\* index.ts:1-61 in invocation i: the environment is checked, then reqRefNo,
\* apiPayload and innerPayload are made
CBuild(i) ==
    /\ runs[i].pc = "LOAD-ENV"
    /\ IF ~EnvCheck(envv) THEN Becomes(i, [runs[i] EXCEPT !.pc = "FAILURE"])
       ELSE \E randByte \in RefRandoms, clientRequestNo \in ClientRequestNos :
              LET ref == GenerateRandomString(randByte, 6)
                  text == StringifyApiPayload(envv.TO_BANK_BIC.v, envv.TO_BANK_ACC.v,
                                              clientRequestNo, ref)
              IN  Becomes(i, [runs[i] EXCEPT
                                !.pc = "KEY-GEN", !.reqRefNo = ref, !.apiPayload = text,
                                !.innerPayload = [url |-> apiEndpoint,
                                                  base64 |-> Base64Encode(Utf8Encode(text))]])

\* index.ts:67-69 in invocation i
CKeyGen(i) ==
    /\ runs[i].pc = "KEY-GEN"
    /\ \E k \in SessionKeys :
         Becomes(i, [runs[i] EXCEPT !.pc = "SYMMETRIC-ENCRYPT", !.aesKey = Buf(k),
                                    !.generated = Buf(k),
                                    !.rawIv = Buf(Utf8Encode(runs[i].reqRefNo))])

\* index.ts:72-76 in invocation i
CSymmetricEncrypt(i) ==
    /\ runs[i].pc = "SYMMETRIC-ENCRYPT"
    /\ LET r == Encrypt(Str(StringifyInnerPayload(runs[i].innerPayload)), KeyOf(i), IvOf(i),
                        <<>>)
       IN  Becomes(i, [runs[i] EXCEPT
                         !.pc = IF r.ok THEN "KEY-WRAP" ELSE "FAILURE",
                         !.aesOut = r,
                         !.used = Append(@, [op |-> "encrypt", key |-> KeyOf(i),
                                             iv |-> IvOf(i)])])

\* the random padding of crypto.publicEncrypt in the invocations
ConcPaddingRandoms == {201}

\* index.ts:81-114 in invocation i: the key is wrapped, the request body and
\* the headers are made and fetch is called
CSend(i) ==
    /\ runs[i].pc = "KEY-WRAP"
    /\ \E rnd \in ConcPaddingRandoms, randByte \in NonceRandoms :
         LET pubKey == ConvertToPem(envv.RSA_PUBLIC_KEY.v, "PUBLIC_KEY")
             r == PublicEncrypt(pubKey, RSA_PKCS1_PADDING, KeyOf(i).v, rnd)
         IN  IF ~r.ok THEN Becomes(i, [runs[i] EXCEPT !.pc = "FAILURE", !.wk = r])
             ELSE Becomes(i, [runs[i] EXCEPT
                    !.pc = "AWAIT-FETCH",
                    !.wk = r,
                    !.requestBody =
                        [wk |-> Base64Encode(r.value.v),
                         payload |-> Base64Encode(HexDecode(runs[i].aesOut.value.fullCiphertext.v)),
                         reqRefNo |-> runs[i].reqRefNo],
                    !.headers =
                        [ContentType |-> "application/json;charset=UTF-8",
                         XSignature |-> GenerateSignature(envv.CB_CLIENT_ID.v, envv.CB_SECRET.v,
                                                          GenerateRandomString(randByte, 32)),
                         XToken |-> envv.CB_ACCESS_TOKEN.v,
                         XClientName |-> envv.CB_CLIENT.v]])

\* the answers to the request of invocation i: the gateway refuses, or seals
\* {"a":1} under the session key of the request and "R00001" or the request's
\* own reference; a gateway that tells requests apart by reqRefNo alone may
\* also answer with what it sealed for another request of the same reqRefNo
ConcAnswers(i) ==
    LET answers(j) ==
            {a.body : a \in {b \in GatewayAnswers(runs[j].requestBody, 1) :
                                \/ b.body.respCode = ErrorCode
                                \/ /\ b.gw.faithful
                                   /\ b.gw.plaintext = <<123, 34, 97, 34, 58, 49, 125>>
                                   /\ b.body.reqRefNo = runs[j].reqRefNo
                                   /\ b.gw.iv \in {<<82, 48, 48, 48, 48, 49>>, runs[j].reqRefNo}}}
    IN  answers(i)
        \cup UNION {answers(j) : j \in {k \in Invocations \ {i} :
                                            /\ runs[k].requestBody # Undefined
                                            /\ runs[k].reqRefNo = runs[i].reqRefNo}}

\* index.ts:114-122 in invocation i: its awaited fetch settles
CFetchSettles(i) ==
    /\ runs[i].pc = "AWAIT-FETCH"
    /\ \/ Becomes(i, [runs[i] EXCEPT !.pc = "FAILURE"])
       \/ \E body \in ConcAnswers(i) :
            Becomes(i, [runs[i] EXCEPT !.pc = "AWAIT-JSON",
                                       !.response = [ok |-> TRUE, status |-> 200,
                                                     body |-> body]])

\* index.ts:124-136 in invocation i: response.json() settles and the
\* response code is looked at
CJsonSettles(i) ==
    /\ runs[i].pc = "AWAIT-JSON"
    /\ IF ~runs[i].response.body.json THEN Becomes(i, [runs[i] EXCEPT !.pc = "FAILURE"])
       ELSE Becomes(i, [runs[i] EXCEPT
                          !.res = runs[i].response.body,
                          !.pc = IF IsBusinessFailure(runs[i].response.body) THEN "FAILURE"
                                 ELSE "DECRYPT"])

\* index.ts:145-150 in invocation i
CDecrypt(i) ==
    /\ runs[i].pc = "DECRYPT"
    /\ LET c == DecryptFullCiphertextCall(RawResponse(runs[i].res), DecryptIv(runs[i].res),
                                          KeyOf(i), DEFAULT_TAG_LENGTH)
       IN  Becomes(i, [runs[i] EXCEPT
                         !.decrypted = c.result,
                         !.used = Append(@, [op |-> "decrypt", key |-> KeyOf(i),
                                             iv |-> DecryptIv(runs[i].res)]),
                         !.pc = IF c.result.ok /\ Utf8Decode(c.result.value.v) \in JsonTexts
                                THEN "SUCCESS" ELSE "FAILURE"])

ConcNext ==
    \E i \in Invocations :
        \/ CBuild(i)
        \/ CKeyGen(i)
        \/ CSymmetricEncrypt(i)
        \/ CSend(i)
        \/ CFetchSettles(i)
        \/ CJsonSettles(i)
        \/ CDecrypt(i)

SpecConc == ConcInit /\ [][ConcNext]_vars

Init == RunInit /\ HIdle /\ UIdle /\ CIdle

Next ==
    \/ LoadEnv
    \/ Build
    \/ KeyGen
    \/ SymmetricEncrypt
    \/ KeyWrap
    \/ Sign
    \/ Transmit
    \/ FetchSettles
    \/ JsonSettles
    \/ Validate
    \/ DecryptResponse

Spec == Init /\ [][Next]_vars

\* where control can be in a run
ProgramCounters == {"LOAD-ENV", "BUILD", "KEY-GEN", "SYMMETRIC-ENCRYPT", "KEY-WRAP", "SIGN",
                    "TRANSMIT", "AWAIT-FETCH", "AWAIT-JSON", "VALIDATE", "DECRYPT",
                    "SUCCESS", "FAILURE"}

\* control is at a top-level statement of the module, not suspended in an
\* await and not at the end
AtStatement == pc \notin {"AWAIT-FETCH", "AWAIT-JSON", "SUCCESS", "FAILURE"}

\* control moves on from a top-level statement: each of LoadEnv .. Transmit,
\* Validate and DecryptResponse can be taken where control is and moves it
ProgramStep == AtStatement /\ pc' \in ProgramCounters

\* A run whose own statements are always executed: between two awaits the
\* module runs to completion.  When the awaited fetch and the awaited
\* response.json() settle is up to the transport.
SpecLive == Init /\ [][Next]_vars /\ WF_pc(ProgramStep)

-----------------------------------------------------------------------------
(* Claims about the AES library, checked under SpecAes                     *)

\* the kind of a thrown error: the head of its message, which is all that
\* tells one plain Error from another
Kind(error) == IF error = <<>> THEN "" ELSE error[1]

ValidKey(key) == Truthy(key) /\ Length(key) = DEFAULT_KEY_LENGTH

ValidIvLength(n) == n >= MIN_IV_LENGTH /\ n <= MAX_IV_LENGTH

\* the encrypt call had a 32-byte key, a supplied IV of 6 to 16 bytes and a
\* non-empty plaintext
RoundTripInputs == Truthy(hText) /\ ValidKey(hKey) /\ Truthy(hIv) /\ ValidIvLength(Length(hIv))

\* C1: for every 32-byte key, every IV of 6 to 16 bytes and every non-empty
\* plaintext p, decrypt applied with the same key to the {ciphertext, iv,
\* authTag} that encrypt(p, key, iv) produced returns exactly p.
C1_RoundTrip ==
    (RoundTripInputs /\ hCall.fn = "decrypt" /\ hCall.form = "returned")
        => (hCall.result.ok /\ hCall.result.value = hText)

\* What does hold of the code: once the caller has hex-decoded the three
\* fields into Buffers, decrypt returns the UTF-8 bytes of the plaintext.
DecodedRoundTrip ==
    (hCall.fn = "decrypt" /\ hCall.form = "decoded" /\ hCall.var = NoVar)
        => (hCall.result.ok /\ hCall.result.value = Buf(Utf8Encode(hText.v)))

\* the envelope (decoded to bytes) was changed in one bit of its ciphertext
\* or of its authTag and then given to decrypt, directly or through
\* decryptFullCiphertext with the default tag length
Tampered ==
    /\ hCall.fn \in {"decrypt", "decryptFullCiphertext"}
    /\ hCall.var.kind = "flip"
    /\ hCall.fn = "decryptFullCiphertext" => hCall.tagLength = DEFAULT_TAG_LENGTH

\* C2: a tampered envelope makes decrypt, called directly or through
\* decryptFullCiphertext, fail with an AuthenticationFailure, a kind of error
\* of its own and not the kind of any other decryption or provider failure;
\* no plaintext is returned.
C2_TamperDetected ==
    Tampered => (~hCall.result.ok /\ Kind(hCall.result.error) = Kind(AuthFailedMsg))

\* What does hold of the code: a tampered envelope never decrypts, the direct
\* call reports the authentication failure as its own kind, and the call
\* through decryptFullCiphertext reports it under the wrapper's kind.
TamperNeverDecrypts ==
    Tampered =>
        /\ ~hCall.result.ok
        /\ hCall.fn = "decrypt" => hCall.result.error = AuthFailedMsg
        /\ hCall.fn = "decryptFullCiphertext"
              => hCall.result.error = <<FullFailedPrefix>> \o AuthFailedMsg

\* a call of decryptFullCiphertext whose fullCiphertext, iv and key pass the
\* argument checks that precede the length check
FullCallChecked ==
    /\ hCall.fn = "decryptFullCiphertext"
    /\ Truthy(hCall.full) /\ Truthy(hCall.data.iv) /\ ValidKey(hCall.key)

\* C8: decryptFullCiphertext fails with TooShort when fullCiphertext is shorter
\* than tagLength (any tagLength >= 0); otherwise the ciphertext handed to
\* decrypt is the first length - tagLength bytes, the authTag the last
\* tagLength bytes, and the two together are fullCiphertext.
C8_Split ==
    FullCallChecked =>
        LET full == hCall.full.v
            n == Len(full) - hCall.tagLength
        IN  IF n < 0 THEN hCall.result.error = TooShortMsg
            ELSE /\ hCall.passed.ciphertext = Buf(SubSeq(full, 1, n))
                 /\ hCall.passed.authTag = Buf(SubSeq(full, n + 1, Len(full)))
                 /\ hCall.passed.ciphertext.v \o hCall.passed.authTag.v = full

\* What does hold of the code: the split is as C8 says for every tagLength >= 1.
SplitPositiveTagLength == (FullCallChecked /\ hCall.tagLength >= 1) => C8_Split

\* the provider compared a tag in the last decrypt / decryptFullCiphertext call
TagVerified ==
    /\ hCall.fn \in {"decrypt", "decryptFullCiphertext"}
    /\ hCall.passed # NotPassed
    /\ Truthy(hCall.passed.ciphertext) /\ Truthy(hCall.passed.iv) /\ Truthy(hCall.passed.authTag)
    /\ ValidKey(hCall.key)
    /\ ProviderVerifies(hCall.key, hCall.passed.iv, hCall.passed.authTag)

EncryptTagIs16 ==
    hEnc.ok => /\ Len(HexDecode(hEnc.value.authTag.v)) = DEFAULT_TAG_LENGTH
               /\ Len(hEnc.value.authTag.v) = 2 * DEFAULT_TAG_LENGTH
               /\ Len(hEnc.value.fullCiphertext.v)
                     = Len(hEnc.value.ciphertext.v) + 2 * DEFAULT_TAG_LENGTH

\* C9: every authTag encrypt produces and every authTag the cipher verifies
\* for decrypt or decryptFullCiphertext is exactly 16 bytes; no call makes the
\* cipher verify a tag of another length.
C9_TagAlways16 ==
    /\ EncryptTagIs16
    /\ TagVerified => Len(AsBytes(hCall.passed.authTag)) = DEFAULT_TAG_LENGTH

\* What does hold of the code: every authTag encrypt produces is exactly 16 bytes, and
\* decryptFullCiphertext called with the default tagLength hands decrypt
\* exactly 16 bytes as the authTag; with another tagLength, or in a direct
\* decrypt call, the tag has the length the caller chose and the cipher
\* verifies it when that length is 4, 8 or 12 to 16.
TagLengthAsCoded ==
    /\ EncryptTagIs16
    /\ (hCall.fn = "decryptFullCiphertext" /\ hCall.tagLength = DEFAULT_TAG_LENGTH
            /\ hCall.passed # NotPassed)
          => Length(hCall.passed.authTag) = DEFAULT_TAG_LENGTH
    /\ (hCall.fn = "decryptFullCiphertext" /\ hCall.passed # NotPassed /\ hCall.tagLength >= 1)
          => Length(hCall.passed.authTag) = hCall.tagLength
    /\ hCall.result.ok => Len(AsBytes(hCall.passed.authTag)) \in GcmTagLengths

\* C10: encrypt fails with EmptyInput for an empty plaintext, with InvalidKey
\* for a key that is not 32 bytes, with InvalidIv for a supplied iv outside
\* 6..16 bytes, each a kind of its own that is not the provider (encryption)
\* failure kind, and returns no envelope; with the iv omitted and the other
\* inputs valid the returned iv is 6 bytes.
C10_EncryptValidation ==
    hEnc # NoResult =>
        IF ~Truthy(hText) THEN ~hEnc.ok /\ Kind(hEnc.error) = Kind(EmptyTextMsg)
        ELSE IF ~ValidKey(hKey) THEN ~hEnc.ok /\ Kind(hEnc.error) = Kind(InvalidKeyMsg)
        ELSE IF Truthy(hIv) /\ ~ValidIvLength(Length(hIv))
            THEN /\ ~hEnc.ok
                 /\ Kind(hEnc.error) = InvalidIvText
                 /\ Kind(hEnc.error) # EncryptFailedPrefix
        ELSE IF ~Truthy(hIv)
            THEN hEnc.ok /\ Len(HexDecode(hEnc.value.iv.v)) = DEFAULT_IV_LENGTH
        ELSE hEnc.ok

\* What does hold of the code: the same, except that the rejected IV is
\* reported under the encryption-failure prefix.
EncryptValidationAsCoded ==
    hEnc # NoResult =>
        IF ~Truthy(hText) THEN hEnc = Err(EmptyTextMsg)
        ELSE IF ~ValidKey(hKey) THEN hEnc = Err(InvalidKeyMsg)
        ELSE IF Truthy(hIv) /\ ~ValidIvLength(Length(hIv))
            THEN hEnc = Err(<<EncryptFailedPrefix, InvalidIvText>>)
        ELSE IF ~Truthy(hIv)
            THEN hEnc.ok /\ Len(HexDecode(hEnc.value.iv.v)) = DEFAULT_IV_LENGTH
        ELSE hEnc.ok

-----------------------------------------------------------------------------
(* Claims about a run of index.ts, checked under Spec                      *)

\* the steps the run has performed
Steps == {trace[i] : i \in DOMAIN trace}

\* the key pair whose public half the environment configures
ConfiguredKeyPair == ParsePublicKey(ConvertToPem(envv.RSA_PUBLIC_KEY.v, "PUBLIC_KEY"))

\* C3: a counterpart that unwraps the request's wk with the gateway private
\* key (PKCS1 v1.5) and AES-GCM-decrypts the request's payload with that key
\* and the UTF-8 bytes of reqRefNo recovers the inner envelope {url, base64}
\* whose base64 field decodes to exactly the original payload; and a response
\* the counterpart encrypts under that session key with the UTF-8 bytes of
\* respRefNo is decrypted by the client to exactly the counterpart's plaintext.
C3_EndToEnd ==
    /\ requestBody # Undefined =>
          LET g == GatewayProcess(requestBody, ConfiguredKeyPair)
          IN  /\ g.sessionKey = Ok(aesKey)
              /\ g.inner = [ok |-> TRUE, url |-> apiEndpoint, base64 |-> innerPayload.base64]
              /\ g.payload = Ok(Str(apiPayload))
    /\ (gateway.faithful /\ "DECRYPT" \in Steps)
          => /\ gateway.sessionKey = Ok(aesKey)
             /\ decrypted = Ok(Buf(Utf8Encode(gateway.plaintext)))

\* a run whose payload holds a two-byte character succeeded on a response the
\* gateway sealed under the session key it unwrapped
C3_Witness ==
    /\ pc = "SUCCESS"
    /\ gateway.faithful
    /\ envv.TO_BANK_ACC.v = <<233, 49>>
    /\ gateway.payload = Ok(Str(apiPayload))
    /\ decrypted.ok

\* C4: the symmetric key is generated exactly once, at KEY-GEN, and is 32
\* bytes; the key used at SYMMETRIC-ENCRYPT, the key wrapped at KEY-WRAP and
\* the key passed to decryptFullCiphertext at DECRYPT are that same value; it
\* is never replaced between KEY-GEN and the terminal state.
C4_SessionKeyConstancy ==
    /\ Cardinality({i \in DOMAIN trace : trace[i] = "KEY-GEN"}) <= 1
    /\ "KEY-GEN" \in Steps <=> aesKey # Undefined
    /\ "KEY-GEN" \in Steps => aesKey.t = "Buffer" /\ Length(aesKey) = DEFAULT_KEY_LENGTH
    /\ \A i \in DOMAIN cipherLog : cipherLog[i].key = aesKey
    /\ wk.ok => PrivateDecrypt(ConfiguredKeyPair, RSA_PKCS1_PADDING, wk.value.v) = Ok(aesKey)
    /\ (Len(cipherLog) >= 1 /\ cipherLog[1].ran)
          => aesOut.value.ciphertext.v
                = HexEncode(GcmCrypt(aesKey.v, rawIv.v,
                                     Utf8Encode(StringifyInnerPayload(innerPayload))))

\* the run used the key three times: to encrypt, to be wrapped and to decrypt
C4_Witness ==
    /\ pc \in {"SUCCESS", "FAILURE"}
    /\ Len(cipherLog) = 3
    /\ cipherLog[1].op = "encrypt" /\ cipherLog[2].op = "wrap" /\ cipherLog[3].op = "decrypt"
    /\ cipherLog[3].ran

StepOrder == <<"BUILD", "KEY-GEN", "SYMMETRIC-ENCRYPT", "KEY-WRAP", "SIGN", "TRANSMIT",
               "VALIDATE", "DECRYPT">>

\* C5: the steps occur only in the order BUILD, KEY-GEN, SYMMETRIC-ENCRYPT,
\* KEY-WRAP, SIGN, TRANSMIT, VALIDATE, DECRYPT; TRANSMIT is performed at most
\* once and only after the five steps before it succeeded; the first failing
\* step moves the run to FAILURE and no later step is executed; no step is
\* taken from SUCCESS or FAILURE.
C5_SinglePass ==
    /\ Len(trace) <= Len(StepOrder)
    /\ trace = SubSeq(StepOrder, 1, Len(trace))
    /\ "TRANSMIT" \in Steps => /\ aesOut.ok /\ wk.ok
                               /\ requestBody # Undefined /\ headers # Undefined
    /\ failure # NoFailure <=> pc = "FAILURE"
    /\ pc = "FAILURE" => failure.step = IF trace = <<>> THEN "LOAD-ENV" ELSE trace[Len(trace)]
    /\ pc = "SUCCESS" => trace = StepOrder
    /\ pc \in {"SUCCESS", "FAILURE"} => ~ENABLED Next

\* the request was sent, the transport failed, and the run is over
C5_Witness ==
    /\ pc = "FAILURE"
    /\ failure.step = "TRANSMIT"
    /\ trace = SubSeq(StepOrder, 1, 6)
    /\ ~ENABLED Next

\* C6: when the response's respCode differs from "0000" the run ends in
\* FAILURE with a business-failure error that carries the whole response and
\* is not the transport failure raised for a non-OK HTTP status, and DECRYPT is
\* not performed; DECRYPT is performed only after a response with respCode
\* "0000".
C6_Validate ==
    /\ ("VALIDATE" \in Steps /\ res.respCode # <<48, 48, 48, 48>>)
          => /\ pc = "FAILURE"
             /\ failure.step = "VALIDATE"
             /\ failure.carries = res
             /\ Kind(failure.error) = "Endpoint Request failed"
             /\ Kind(failure.error) # "Gateway request failed"
             /\ "DECRYPT" \notin Steps
    /\ "DECRYPT" \in Steps => res # Undefined /\ res.respCode = <<48, 48, 48, 48>>
    /\ (pc = "FAILURE" /\ response # NoResponse /\ ~response.ok)
          => /\ Kind(failure.error) = "Gateway request failed"
             /\ failure.carries = Undefined
             /\ "VALIDATE" \notin Steps

\* the gateway answered with code "9999" and the run failed at VALIDATE
C6_Witness ==
    /\ pc = "FAILURE"
    /\ failure.step = "VALIDATE"
    /\ res.respCode = ErrorCode
    /\ failure.carries = res
    /\ gateway.processed

\* C7: every IV handed to an AES-256-GCM operation has a length of 6 to 16
\* bytes: the IV from reqRefNo at KEY-GEN and the IV from respRefNo at DECRYPT
\* both satisfy it, and a call with an IV outside 6..16 bytes fails instead of
\* running the cipher.
C7_IvLengthContract ==
    \A i \in DOMAIN cipherLog :
        (cipherLog[i].op \in {"encrypt", "decrypt"} /\ cipherLog[i].ran)
            => ValidIvLength(Length(cipherLog[i].iv))

\* What does hold of the code: the IV of the request is 6 bytes, and the IV
\* of a response that the cipher ran on is not empty.
RequestIvInRange ==
    /\ rawIv # Undefined => Length(rawIv) = 6
    /\ \A i \in DOMAIN cipherLog :
          (cipherLog[i].op = "decrypt" /\ cipherLog[i].ran) => Length(cipherLog[i].iv) >= 1

-----------------------------------------------------------------------------
(* Claims about util.ts, checked under SpecUtil                            *)

\* a text of parts p has a BEGIN delimiter, an END delimiter with the same
\* label, a label of one or more characters that all satisfy LabelOk, and a
\* non-empty body between the delimiters
WellFormedPem(p, LabelOk(_)) ==
    /\ p.hasBegin /\ p.hasEnd
    /\ EndLabelOf(p) = p.beginLabel
    /\ p.beginLabel # <<>>
    /\ \A i \in DOMAIN p.beginLabel : LabelOk(p.beginLabel[i])
    /\ p.body # <<>>

\* a letter of either case, or a space
IsLetterOrSpace(c) == (c >= 65 /\ c <= 90) \/ (c >= 97 /\ c <= 122) \/ c = 32

\* an upper-case letter A to Z, or a white-space character
IsUpperOrWhiteSpace(c) == (c >= 65 /\ c <= 90) \/ IsJsSpace(c)

\* C12: isValidPEM(text) returns true if and only if the trimmed text starts
\* with a BEGIN delimiter, ends with an END delimiter of the identical label
\* (letters and spaces only) and has a non-empty body between them; it returns
\* false for null, undefined, non-string and empty input, and white space
\* around a valid PEM does not change the result.
C12_IsValidPEM ==
    uCall.fn = "isValidPEM" =>
        IF uCall.built THEN uCall.result = WellFormedPem(uCall.parts, IsLetterOrSpace)
        ELSE uCall.result = FALSE

\* C12 as amended: the same, with a label of upper-case letters A to Z and
\* white-space characters (space, tab, line break) only: a label with a
\* lower-case letter is refused, one with a tab or a line break is accepted.
C12_IsValidPEMUpperCase ==
    uCall.fn = "isValidPEM" =>
        IF uCall.built THEN uCall.result = WellFormedPem(uCall.parts, IsUpperOrWhiteSpace)
        ELSE uCall.result = FALSE

\* a valid PEM with white space before and after it was found valid
C12_Witness ==
    /\ uCall.fn = "isValidPEM"
    /\ uCall.built
    /\ uCall.parts.lead # <<>> /\ uCall.parts.trail # <<>>
    /\ WellFormedPem(uCall.parts, IsUpperOrWhiteSpace)
    /\ uCall.result = TRUE

\* the lines of a text: what s.split("\n") yields
SplitLines(s) ==
    LET breaks == {i \in 1..Len(s) : s[i] = 10}
        n == Cardinality(breaks)
        \* position of the k-th line break; 0 before the first, Len(s) + 1 after the last
        at(k) == IF k = 0 THEN 0
                 ELSE IF k > n THEN Len(s) + 1
                 ELSE CHOOSE i \in breaks : Cardinality({j \in breaks : j < i}) = k - 1
    IN  [k \in 1..(n + 1) |-> SubSeq(s, at(k - 1) + 1, at(k) - 1)]

\* the concatenation of the lines k..n of lines
ConcatFrom(lines, k, n) ==
    LET \* what the lines before line j hold together
        start(j) == SumSeq([m \in 1..(j - k) |-> Len(lines[k + m - 1])])
    IN  [i \in 1..SumSeq([m \in 1..(n - k + 1) |-> Len(lines[k + m - 1])]) |->
            LET j == CHOOSE x \in k..n : start(x) < i /\ i <= start(x) + Len(lines[x])
            IN  lines[j][i - start(j)]]

\* C16: for every base64 string b and kind, the first line of convertToPem's
\* output is exactly the kind's BEGIN header and the last line exactly the
\* matching END footer, every body line has at most 64 characters with only
\* the last body line allowed to be shorter than 64, and the body lines
\* concatenated in order equal b.
C16_ConvertToPemWrapping ==
    (uCall.fn = "convertToPem" /\ uCall.isBase64) =>
        LET lines == SplitLines(uCall.result)
            n == Len(lines)
            private == uCall.type = "PRIVATE_KEY"
        IN  /\ n >= 3
            /\ lines[1] = IF private THEN RsaPrivateKeyHeader ELSE PublicKeyHeader
            /\ lines[n] = IF private THEN RsaPrivateKeyFooter ELSE PublicKeyFooter
            /\ \A k \in 2..(n - 1) : Len(lines[k]) <= 64
            /\ \A k \in 2..(n - 2) : Len(lines[k]) = 64
            /\ ConcatFrom(lines, 2, n - 1) = uCall.base64

\* a base64 string of 129 characters was wrapped as an RSA PRIVATE KEY into
\* two full lines and one of a single character
C16_Witness ==
    /\ uCall.fn = "convertToPem"
    /\ uCall.isBase64
    /\ uCall.type = "PRIVATE_KEY"
    /\ Len(uCall.base64) = 129
    /\ Len(SplitLines(uCall.result)) = 5
    /\ Len(SplitLines(uCall.result)[4]) = 1

\* C20: for every string b, the empty one too, and each kind,
\* isValidPEM(convertToPem(b, kind)) is true; so the PEM that the run builds
\* at KEY-WRAP from the configured base64 passes isValidPEM.
C20_PemCodecConsistency ==
    uCall.fn = "convertToPem" => uCall.valid = TRUE

\* the PEM made of the empty string was found valid
C20_Witness ==
    /\ uCall.fn = "convertToPem"
    /\ uCall.base64 = <<>>
    /\ uCall.result = PublicKeyHeader \o <<10, 10>> \o PublicKeyFooter
    /\ uCall.valid = TRUE

\* C14: for every requested length n (6 when left out) and every outcome of
\* the random byte draw, getCbRequestId(n) returns a string of exactly n
\* characters.
C14_CbRequestIdLength ==
    uCall.fn = "getCbRequestId" => Len(uCall.result) = uCall.length

\* What does hold of the code: the identifier has at most n characters, none
\* of them "-", "_" or "/", and exactly n when the draw encodes to no "-" and
\* no "_".
CbRequestIdAsCoded ==
    uCall.fn = "getCbRequestId" =>
        /\ Len(uCall.result) <= uCall.length
        /\ \A i \in DOMAIN uCall.result : uCall.result[i] \notin {45, 47, 95}
        /\ (\A i \in DOMAIN uCall.randByte : uCall.randByte[i] = 0)
              => Len(uCall.result) = uCall.length

\* C13: for every input that isValidPEM rejects, deriveRsaPublicKey fails with
\* InvalidFormat and the key parser is not invoked; for every input that
\* isValidPEM accepts but that is no usable RSA private key it fails with
\* DerivationFailure wrapping the parser's error; a public-key PEM is returned
\* only when parsing succeeded, and it satisfies isValidPEM.
C13_DeriveErrorOrdering ==
    uCall.fn = "deriveRsaPublicKey" =>
        /\ ~uCall.accepted => /\ ~uCall.result.ok
                              /\ uCall.result.error = InvalidPemMsg
                              /\ ~uCall.parsed
        /\ (uCall.accepted /\ uCall.holds # "rsa-private")
              => /\ ~uCall.result.ok
                 /\ Kind(uCall.result.error) = DeriveFailedPrefix
                 /\ Len(uCall.result.error) >= 2
        /\ uCall.result.ok => uCall.parsed /\ uCall.valid

\* What does hold of the code: the same, except that a private key of another
\* type that the provider can read (an EC key) is not refused: its public key
\* is returned.
DeriveErrorOrderingAsCoded ==
    uCall.fn = "deriveRsaPublicKey" =>
        /\ ~uCall.accepted => /\ ~uCall.result.ok
                              /\ uCall.result.error = InvalidPemMsg
                              /\ ~uCall.parsed
        /\ (uCall.accepted /\ uCall.holds \notin {"rsa-private", "ec-private"})
              => /\ ~uCall.result.ok
                 /\ Kind(uCall.result.error) = DeriveFailedPrefix
                 /\ Len(uCall.result.error) >= 2
        /\ uCall.result.ok => uCall.parsed /\ uCall.valid
        /\ uCall.holds \in {"rsa-private", "ec-private"} => uCall.result.ok

\* C11: for every plaintext p that fits the key, every key pair and each of the
\* schemes OAEP and PKCS1, decrypt(encrypt(p, pub, s), priv, s) and
\* decryptWithNodeforge(encrypt(p, pub, s), priv, s) both return a plaintext
\* bit-identical to p.
C11_CrossProviderAgreement ==
    (uCall.fn = "rsa" /\ uCall.privPair = uCall.pair) =>
        /\ uCall.encrypted.ok
        /\ uCall.primary = Ok(Buf(uCall.p))
        /\ uCall.secondary = Ok(Buf(uCall.p))

\* both paths have opened an OAEP ciphertext of a plaintext with a high byte
C11_Witness ==
    /\ uCall.fn = "rsa"
    /\ uCall.privPair = uCall.pair
    /\ uCall.scheme = "OAEP"
    /\ uCall.p = <<200, 0, 255>>
    /\ uCall.cipherText.v # uCall.p
    /\ uCall.primary = Ok(Buf(uCall.p))
    /\ uCall.secondary = uCall.primary

\* Under the private key of another pair, or a key that is no RSA key, neither
\* path returns a plaintext.
RsaOtherKeyFails ==
    (uCall.fn = "rsa" /\ uCall.privPair # uCall.pair) =>
        ~uCall.primary.ok /\ ~uCall.secondary.ok

\* C18: in every run the session key is never used with the same IV for both
\* the request encryption and the response decryption: DECRYPT runs the cipher
\* only when the IV from the response's respRefNo differs from the IV from the
\* request's reqRefNo.
C18_NoKeyIvReuse ==
    \A i, j \in DOMAIN cipherLog :
        (/\ cipherLog[i].op = "encrypt" /\ cipherLog[i].ran
         /\ cipherLog[j].op = "decrypt" /\ cipherLog[j].ran
         /\ cipherLog[i].key = cipherLog[j].key)
            => AsBytes(cipherLog[i].iv) # AsBytes(cipherLog[j].iv)

\* What does hold of the code: the cipher runs at most once to encrypt and at
\* most once to decrypt in a run, and the decryption's IV is the UTF-8 bytes of
\* whatever respRefNo the response carried.
CipherRunsAsCoded ==
    /\ Cardinality({i \in DOMAIN cipherLog : cipherLog[i].op = "encrypt"}) <= 1
    /\ Cardinality({i \in DOMAIN cipherLog : cipherLog[i].op = "decrypt"}) <= 1
    /\ \A j \in DOMAIN cipherLog :
          cipherLog[j].op = "decrypt" => cipherLog[j].iv = Buf(Utf8Encode(res.respRefNo))

\* C19: a run reaches SUCCESS only if the reqRefNo carried in the received
\* response equals the reqRefNo the run sent in its request; a response with a
\* different reqRefNo ends the run in FAILURE.
C19_ResponseBinding ==
    /\ pc = "SUCCESS" => res.reqRefNo = requestBody.reqRefNo
    /\ (pc \in {"SUCCESS", "FAILURE"} /\ res # Undefined /\ res.reqRefNo # requestBody.reqRefNo)
          => pc = "FAILURE"

\* What does hold of the code: the response's reqRefNo decides nothing; a run
\* succeeds exactly on a "0000" response whose payload opens under the session
\* key and the response's respRefNo and is JSON.
SuccessAsCoded ==
    pc = "SUCCESS" => /\ ~IsBusinessFailure(res)
                      /\ decrypted.ok
                      /\ Utf8Decode(decrypted.value.v) \in JsonTexts

\* the run is suspended in the transport call of TRANSMIT
Awaiting == pc \in {"AWAIT-FETCH", "AWAIT-JSON"}

Terminated == pc \in {"SUCCESS", "FAILURE"}

\* C17: provided the awaited transport call eventually returns, every run
\* eventually reaches exactly one of the terminal states SUCCESS or FAILURE
\* and stays there; the only state in which a run can wait for ever is
\* TRANSMIT.
C17_Termination ==
    /\ <>[]Awaiting \/ <>Terminated
    /\ [][Terminated => pc' = pc]_vars
    /\ [][(Awaiting' /\ ~Awaiting) => pc = "TRANSMIT"]_vars

\* a run that was suspended in the transport call has ended
C17_Witness ==
    /\ Terminated
    /\ response # NoResponse
    /\ "TRANSMIT" \in Steps

\* C15: in every interleaving of concurrent invocations no step of one
\* invocation reads or changes another invocation's symmetric key or IV: an
\* invocation's key and IV change only in its own KEY-GEN step, every key it
\* hands to the cipher, at SYMMETRIC-ENCRYPT and at DECRYPT, and the key it
\* wraps are the key it generated at KEY-GEN, and the IV of its encryption is
\* that of its own reqRefNo, also when two invocations have the same reqRefNo;
\* the configured key material is never modified.
C15_Isolation ==
    /\ [](\A i \in Invocations :
            /\ \A n \in DOMAIN runs[i].used :
                  /\ runs[i].used[n].key = runs[i].generated
                  /\ runs[i].used[n].op = "encrypt"
                        => runs[i].used[n].iv = Buf(Utf8Encode(runs[i].reqRefNo))
            /\ runs[i].wk.ok
                  => PrivateDecrypt(1, RSA_PKCS1_PADDING, runs[i].wk.value.v)
                        = Ok(runs[i].generated)
            /\ runs[i].aesKey = runs[i].generated)
    /\ [][\A i \in Invocations :
            (runs'[i].aesKey # runs[i].aesKey \/ runs'[i].rawIv # runs[i].rawIv)
                => runs[i].pc = "KEY-GEN" /\ runs'[i].pc = "SYMMETRIC-ENCRYPT"]_vars
    /\ [][envv' = envv]_vars

\* two invocations with the same reqRefNo and different keys have both
\* decrypted their responses
C15_Witness ==
    /\ runs # <<>>
    /\ runs[1].pc = "SUCCESS"
    /\ runs[2].pc = "SUCCESS"
    /\ runs[1].reqRefNo = runs[2].reqRefNo
    /\ runs[1].generated # runs[2].generated

\* An invocation succeeds only on an answer that opens under its own key: with
\* the same reqRefNo, an answer sealed for the other invocation under another
\* key ends it in FAILURE.
ConcForeignAnswerFails ==
    \A i \in DOMAIN runs :
        (/\ runs[i].pc = "SUCCESS")
            => runs[i].decrypted = Ok(Buf(<<123, 34, 97, 34, 58, 49, 125>>))

====
